---- MODULE Spec2Model ----
(***************************************************************************)
(* Tournament lifecycle and participant registration of the BGMI           *)
(* tournament bot.                                                         *)
(*                                                                         *)
(* The state is the persisted collections (tournaments, users) and the     *)
(* clock.  Two layers of the repository act on a tournament record:        *)
(*   - the entity methods of class Tournament (tournament.py), applied to  *)
(*     the record as load / call / store;                                  *)
(*   - the chat handlers (tournament_handlers.py, admin_handlers.py),      *)
(*     which read and write the record through class Database.             *)
(* Time is counted in hours.                                               *)
(***************************************************************************)
EXTENDS Integers, Sequences, FiniteSets, TLC

\* ------------------------------------------------------------------ bounds
NumUsers == 3
MaxTime == 5
NumProcs == 3
MaxRosterLen == 10
MaxWins == 3

\* -------------------------------------------------------- program constants
RegistrationCutoffHours == 1
AutoCompleteHours == 3

\* ------------------------------------------------------------- value sets
TournamentIds == {"T1"}
UserIds == 1..NumUsers
Procs == 1..NumProcs
NoneTime == 0 - 1
\* Config.ADMIN_ID: a caller id distinct from every player id
ADMIN_ID == NumUsers + 1

UPCOMING == "upcoming"
LIVE == "live"
COMPLETED == "completed"
CANCELLED == "cancelled"
TournamentStatus == {UPCOMING, LIVE, COMPLETED, CANCELLED}

\* inputs the operations are exercised with
MaxParticipantsInputs == {2}
MinParticipantsInputs == {1}
SchedInputs == {2}
DeadlineInputs == {NoneTime}
RoomInputs == {"123"}
PasswordInputs == {"pw"}
WinnersInputs == {<<"w1">>}
ReasonInputs == {"", "rain"}
\* recipients whose delivery fails when room details are sent
FailingInputs == {{}}
\* callers of the admin commands: one player and the admin
CallerIds == {1, ADMIN_ID}

VARIABLES tournaments, users, payments, now, last, pc, loc

vars == <<tournaments, users, payments, now, last, pc, loc>>

\* ---------------------------------------------------------------- helpers
Contains(s, x) == \E i \in 1..Len(s) : s[i] = x

IndexOf(s, x) == CHOOSE i \in 1..Len(s) : s[i] = x /\ \A j \in 1..(i - 1) : s[j] # x

\* variant: the last entry is deleted, whichever it is
ListRemove_pop(s, x) ==
    IF ~Contains(s, x) THEN s ELSE SubSeq(s, 1, Len(s) - 1)

\* list.remove(x): delete the first occurrence, keep the order of the rest
ListRemove(s, x) ==
    IF ~Contains(s, x) THEN s
    ELSE LET k == IndexOf(s, x)
         IN [i \in 1..(Len(s) - 1) |-> IF i < k THEN s[i] ELSE s[i + 1]]

NoDuplicates(s) == \A i, j \in 1..Len(s) : i # j => s[i] # s[j]

\* ------------------------------------------------------ records and state
\* a slot of the tournaments collection holding no document
NoTournament ==
    [exists |-> FALSE, status |-> UPCOMING, participants |-> <<>>,
     max_participants |-> 0, min_participants |-> 0,
     room_id |-> "", room_password |-> "", winners |-> <<>>,
     description |-> <<>>, sched |-> NoneTime,
     registration_deadline |-> NoneTime, updated_at |-> 0]

\* the result of a payments query that found no document
NoPayment == [exists |-> FALSE, user_id |-> 0, utr_number |-> "", status |-> ""]

\* a slot of the users collection holding no document
NoUser == [exists |-> FALSE, paid |-> FALSE, confirmed |-> FALSE, is_banned |-> FALSE]

\* the last finished operation: its name, arguments and reported outcome;
\* arg holds the further arguments of the call (room id and password, the
\* winners list, the reason) and size_before the roster size when it began
NoOp == [op |-> "none", t |-> "", u |-> 0, res |-> "", sent |-> 0, total |-> 0,
         arg |-> <<>>, size_before |-> 0]

Done(op, t, u, res) ==
    [op |-> op, t |-> t, u |-> u, res |-> res, sent |-> 0, total |-> 0, arg |-> <<>>,
     size_before |-> IF t \in TournamentIds THEN Len(tournaments[t].participants) ELSE 0]

BoolRes(b) == IF b THEN "true" ELSE "false"

\* ------------------------------------------- class Tournament (tournament.py)
\* get_datetime(): the parsed date/time, or None when it does not parse
get_datetime(T) == T.sched

get_participant_count(T) == Len(T.participants)

is_full(T) == Len(T.participants) >= T.max_participants

is_registration_open(T, clock) ==
    IF T.status # UPCOMING THEN FALSE
    ELSE IF is_full(T) THEN FALSE
    ELSE IF T.registration_deadline # NoneTime THEN clock < T.registration_deadline
    ELSE IF get_datetime(T) # NoneTime
         THEN clock < get_datetime(T) - RegistrationCutoffHours
    ELSE TRUE

\* variant: a full roster does not stop the registration
add_participant_no_full_check(T, user_id, clock) ==
    IF Contains(T.participants, user_id) THEN [ok |-> FALSE, t |-> T]
    ELSE IF T.status # UPCOMING THEN [ok |-> FALSE, t |-> T]
    ELSE [ok |-> TRUE,
          t |-> [T EXCEPT !.participants = Append(@, user_id), !.updated_at = clock]]

\* each method yields the returned boolean and the entity after the call
add_participant(T, user_id, clock) ==
    IF is_full(T) THEN [ok |-> FALSE, t |-> T]
    ELSE IF Contains(T.participants, user_id) THEN [ok |-> FALSE, t |-> T]
    ELSE IF T.status # UPCOMING THEN [ok |-> FALSE, t |-> T]
    ELSE [ok |-> TRUE,
          t |-> [T EXCEPT !.participants = Append(@, user_id), !.updated_at = clock]]

remove_participant(T, user_id, clock) ==
    IF ~Contains(T.participants, user_id) THEN [ok |-> FALSE, t |-> T]
    ELSE IF T.status \notin {UPCOMING, LIVE} THEN [ok |-> FALSE, t |-> T]
    ELSE [ok |-> TRUE,
          t |-> [T EXCEPT !.participants = ListRemove(@, user_id), !.updated_at = clock]]

\* variant: the room fields are stored but the status is left as it is
start_tournament_keeps_status(T, room_id, room_password, clock) ==
    IF T.status # UPCOMING THEN [ok |-> FALSE, t |-> T]
    ELSE IF get_participant_count(T) < T.min_participants THEN [ok |-> FALSE, t |-> T]
    ELSE [ok |-> TRUE,
          t |-> [T EXCEPT !.room_id = room_id, !.room_password = room_password,
                          !.updated_at = clock]]

start_tournament(T, room_id, room_password, clock) ==
    IF T.status # UPCOMING THEN [ok |-> FALSE, t |-> T]
    ELSE IF get_participant_count(T) < T.min_participants THEN [ok |-> FALSE, t |-> T]
    ELSE [ok |-> TRUE,
          t |-> [T EXCEPT !.room_id = room_id, !.room_password = room_password,
                          !.status = LIVE, !.updated_at = clock]]

\* variant: completes from any status
complete_tournament_any_status(T, winners, clock) ==
    [ok |-> TRUE,
     t |-> [T EXCEPT !.winners = winners, !.status = COMPLETED, !.updated_at = clock]]

complete_tournament(T, winners, clock) ==
    IF T.status # LIVE THEN [ok |-> FALSE, t |-> T]
    ELSE [ok |-> TRUE,
          t |-> [T EXCEPT !.winners = winners, !.status = COMPLETED, !.updated_at = clock]]

CancelText(reason) == IF reason # "" THEN <<"Cancelled: ", reason>> ELSE <<"Cancelled">>

\* variant: cancels from any status
cancel_tournament_any_status(T, reason, clock) ==
    [ok |-> TRUE,
     t |-> [T EXCEPT !.status = CANCELLED, !.description = CancelText(reason),
                     !.updated_at = clock]]

cancel_tournament(T, reason, clock) ==
    IF T.status \in {COMPLETED, CANCELLED} THEN [ok |-> FALSE, t |-> T]
    ELSE [ok |-> TRUE,
          t |-> [T EXCEPT !.status = CANCELLED, !.description = CancelText(reason),
                          !.updated_at = clock]]

\* variant: goes LIVE whatever the number of participants
update_status_based_on_time_no_min_check(T, clock) ==
    IF get_datetime(T) = NoneTime THEN T
    ELSE LET T1 ==
                 IF T.status = UPCOMING /\ get_datetime(T) <= clock
                 THEN [T EXCEPT !.status = LIVE]
                 ELSE IF T.status = LIVE /\ get_datetime(T) + AutoCompleteHours <= clock
                 THEN [T EXCEPT !.status = COMPLETED]
                 ELSE T
         IN [T1 EXCEPT !.updated_at = clock]

update_status_based_on_time(T, clock) ==
    IF get_datetime(T) = NoneTime THEN T
    ELSE LET T1 ==
                 IF T.status = UPCOMING /\ get_datetime(T) <= clock
                 THEN IF get_participant_count(T) >= T.min_participants
                      THEN [T EXCEPT !.status = LIVE]
                      ELSE [T EXCEPT !.status = CANCELLED,
                                     !.description = <<"Cancelled due to insufficient participants">>]
                 ELSE IF T.status = LIVE /\ get_datetime(T) + AutoCompleteHours <= clock
                 THEN [T EXCEPT !.status = COMPLETED]
                 ELSE T
         IN [T1 EXCEPT !.updated_at = clock]

\* ------------------------------------------------- class User (user.py)
is_eligible_for_tournament(U) == ~U.is_banned /\ U.paid /\ U.confirmed

ban_user(U) == [U EXCEPT !.is_banned = TRUE]

unban_user(U) == [U EXCEPT !.is_banned = FALSE]

\* ------------------------------------------- class Database (database.py)
\* find_one: the stored document, or None (here a record with exists = FALSE)
get_tournament(tournament_id) == tournaments[tournament_id]

get_user(user_id) == users[user_id]

\* variant: the status and participants of the given document are stored
create_tournament_keeps_input(coll, tournament_id, data, clock) ==
    IF coll[tournament_id].exists
    THEN [ok |-> FALSE, coll |-> coll]
    ELSE [ok |-> TRUE,
          coll |-> [coll EXCEPT ![tournament_id] =
                       [data EXCEPT !.exists = TRUE, !.updated_at = clock]]]

\* insert_one under the unique index on tournament_id
create_tournament(coll, tournament_id, data, clock) ==
    IF coll[tournament_id].exists
    THEN [ok |-> FALSE, coll |-> coll]
    ELSE [ok |-> TRUE,
          coll |-> [coll EXCEPT ![tournament_id] =
                       [data EXCEPT !.exists = TRUE, !.participants = <<>>,
                                    !.status = UPCOMING, !.updated_at = clock]]]

\* variant: $push in place of $addToSet (appends even when present)
add_participant_to_tournament_push(coll, tournament_id, user_id) ==
    IF ~coll[tournament_id].exists
    THEN [ok |-> FALSE, coll |-> coll]
    ELSE [ok |-> TRUE,
          coll |-> [coll EXCEPT ![tournament_id].participants = Append(@, user_id)]]

\* $addToSet: appends unless present; modified_count > 0 only when appended
add_participant_to_tournament(coll, tournament_id, user_id) ==
    IF ~coll[tournament_id].exists \/ Contains(coll[tournament_id].participants, user_id)
    THEN [ok |-> FALSE, coll |-> coll]
    ELSE [ok |-> TRUE,
          coll |-> [coll EXCEPT ![tournament_id].participants = Append(@, user_id)]]

\* $set of the given fields plus updated_at; fields is a record of new values
SetFields(T, fields) ==
    [f \in DOMAIN T |-> IF f \in DOMAIN fields THEN fields[f] ELSE T[f]]

\* variant: the update has no filter on tournament_id
update_tournament_every_document(coll, tournament_id, update_data, clock) ==
    IF ~coll[tournament_id].exists
    THEN [ok |-> FALSE, coll |-> coll]
    ELSE [ok |-> TRUE,
          coll |-> [t \in DOMAIN coll |->
                       IF coll[t].exists
                       THEN SetFields(SetFields(coll[t], update_data), [updated_at |-> clock])
                       ELSE coll[t]]]

\* update_one filtered on tournament_id
update_tournament(coll, tournament_id, update_data, clock) ==
    IF ~coll[tournament_id].exists
    THEN [ok |-> FALSE, coll |-> coll]
    ELSE [ok |-> TRUE,
          coll |-> [coll EXCEPT ![tournament_id] =
                       SetFields(SetFields(@, update_data), [updated_at |-> clock])]]

create_user(coll, user_id) ==
    IF coll[user_id].exists THEN coll
    ELSE [coll EXCEPT ![user_id] =
             [exists |-> TRUE, paid |-> FALSE, confirmed |-> FALSE, is_banned |-> FALSE]]

update_user(coll, user_id, update_data) ==
    IF ~coll[user_id].exists THEN coll
    ELSE [coll EXCEPT ![user_id] = SetFields(@, update_data)]

\* find_one on utr_number: the first document with the number, if any
get_payment_by_utr(utr_number) ==
    IF \E i \in 1..Len(payments) : payments[i].utr_number = utr_number
    THEN payments[CHOOSE i \in 1..Len(payments) :
                     /\ payments[i].utr_number = utr_number
                     /\ \A j \in 1..(i - 1) : payments[j].utr_number # utr_number]
    ELSE NoPayment

\* variant: the payments collection has no unique index on utr_number
create_payment_no_unique_index(coll, payment_data) ==
    [ok |-> TRUE,
     coll |-> Append(coll, [payment_data EXCEPT !.exists = TRUE, !.status = "pending"])]

\* insert_one under the unique index on utr_number
create_payment(coll, payment_data) ==
    IF \E i \in 1..Len(coll) : coll[i].utr_number = payment_data.utr_number
    THEN [ok |-> FALSE, coll |-> coll]
    ELSE [ok |-> TRUE,
          coll |-> Append(coll, [payment_data EXCEPT !.exists = TRUE, !.status = "pending"])]

\* ------------------------------------------------------------ initial state
\* a registered player whose payment the admin has confirmed
ConfirmedUser == [exists |-> TRUE, paid |-> TRUE, confirmed |-> TRUE, is_banned |-> FALSE]

NoLocal == [op |-> "none", t |-> "", u |-> 0, user_data |-> NoUser,
            participants |-> <<>>, utr_number |-> "", res |-> ""]

\* lifecycle specification: empty tournaments collection, every player
\* registered and confirmed
Init ==
    /\ tournaments = [t \in TournamentIds |-> NoTournament]
    /\ users = [u \in UserIds |-> ConfirmedUser]
    /\ payments = <<>>
    /\ now = 0
    /\ last = NoOp
    /\ pc = [p \in Procs |-> "idle"]
    /\ loc = [p \in Procs |-> NoLocal]

\* eligibility specification: both collections empty
InitUsers ==
    /\ tournaments = [t \in TournamentIds |-> NoTournament]
    /\ users = [u \in UserIds |-> NoUser]
    /\ payments = <<>>
    /\ now = 0
    /\ last = NoOp
    /\ pc = [p \in Procs |-> "idle"]
    /\ loc = [p \in Procs |-> NoLocal]

\* ------------------------------------------------------------------ clock
Tick ==
    /\ now < MaxTime
    /\ now' = now + 1
    /\ last' = Done("tick", "", 0, "")
    /\ UNCHANGED <<payments, tournaments, users, pc, loc>>

\* --------------------------------------------------------- user operations
\* UserHandlers.start_command: create the user document when absent
StartCommand(u) ==
    /\ users' = (IF ~get_user(u).exists THEN create_user(users, u) ELSE users)
    /\ last' = Done("start_command", "", u, "")
    /\ UNCHANGED <<payments, tournaments, now, pc, loc>>

\* UTR numbers typed after /paid: two well-formed ones, one too short and
\* one that is not all digits
UtrInputs == {"123456789012", "987654321098", "12345", "12345abcde99"}

\* the players who submit payments
PaidUserInputs == {1, 2}

\* utr_number.isdigit() and len(utr_number) >= 10
IsUtrFormat(utr_number) == utr_number \in {"123456789012", "987654321098"}

\* the document paid_command hands to create_payment
PaymentData(user_id, utr_number) ==
    [NoPayment EXCEPT !.user_id = user_id, !.utr_number = utr_number, !.status = "pending"]

\* PaymentHandlers.paid_command
PaidCommand(u, utr_number) ==
    LET w == create_payment(payments, PaymentData(u, utr_number))
    IN /\ IF ~IsUtrFormat(utr_number)
          THEN /\ UNCHANGED <<payments, users>>
               /\ last' = [Done("paid", "", u, "invalid_utr") EXCEPT !.arg = <<utr_number>>]
          ELSE IF get_payment_by_utr(utr_number).exists
          THEN /\ UNCHANGED <<payments, users>>
               /\ last' = [Done("paid", "", u, "utr_used") EXCEPT !.arg = <<utr_number>>]
          ELSE IF ~get_user(u).exists
          THEN /\ UNCHANGED <<payments, users>>
               /\ last' = [Done("paid", "", u, "user_not_found") EXCEPT
                              !.arg = <<utr_number>>]
          ELSE IF w.ok
          THEN /\ payments' = w.coll
               /\ users' = update_user(users, u, [paid |-> TRUE])
               /\ last' = [Done("paid", "", u, "submitted") EXCEPT !.arg = <<utr_number>>]
          ELSE /\ UNCHANGED <<payments, users>>
               /\ last' = [Done("paid", "", u, "failed") EXCEPT !.arg = <<utr_number>>]
       /\ UNCHANGED <<tournaments, now, pc, loc>>

\* variant: every caller passes for the admin
is_admin_anyone(user_id) == user_id = user_id

is_admin(user_id) == user_id = ADMIN_ID

\* AdminHandlers.confirm_payment_command behind admin_required
ConfirmPaymentCommand(caller, u) ==
    /\ IF ~is_admin(caller)
       THEN /\ users' = users
            /\ last' = [Done("confirm", "", u, "denied") EXCEPT !.arg = <<caller>>]
       ELSE IF get_user(u).exists
       THEN /\ users' = update_user(users, u, [confirmed |-> TRUE, paid |-> TRUE])
            /\ last' = [Done("confirm", "", u, "confirmed") EXCEPT !.arg = <<caller>>]
       ELSE /\ users' = users
            /\ last' = [Done("confirm", "", u, "user_not_found") EXCEPT !.arg = <<caller>>]
    /\ UNCHANGED <<payments, tournaments, now, pc, loc>>

BanUser(u) ==
    /\ users[u].exists
    /\ users' = [users EXCEPT ![u] = ban_user(@)]
    /\ last' = Done("ban_user", "", u, "")
    /\ UNCHANGED <<payments, tournaments, now, pc, loc>>

UnbanUser(u) ==
    /\ users[u].exists
    /\ users' = [users EXCEPT ![u] = unban_user(@)]
    /\ last' = Done("unban_user", "", u, "")
    /\ UNCHANGED <<payments, tournaments, now, pc, loc>>

\* --------------------------------------------------------------- creation
\* the document an admin create command hands to Database.create_tournament
TournamentData(maxp, minp, sched, deadline) ==
    [NoTournament EXCEPT !.max_participants = maxp, !.min_participants = minp,
                         !.sched = sched, !.registration_deadline = deadline]

CreateTournament(t, maxp, minp, sched, deadline) ==
    LET r == create_tournament(tournaments, t, TournamentData(maxp, minp, sched, deadline), now)
    IN /\ tournaments' = r.coll
       /\ last' = Done("create", t, 0, IF r.ok THEN "created" ELSE "failed")
       /\ UNCHANGED <<payments, users, now, pc, loc>>

\* ------------------------------------------- entity operations on a record
AddParticipant(t, u) ==
    /\ tournaments[t].exists
    /\ LET r == add_participant(tournaments[t], u, now)
       IN /\ tournaments' = [tournaments EXCEPT ![t] = r.t]
          /\ last' = Done("add_participant", t, u, BoolRes(r.ok))
    /\ UNCHANGED <<payments, users, now, pc, loc>>

RemoveParticipant(t, u) ==
    /\ tournaments[t].exists
    /\ LET r == remove_participant(tournaments[t], u, now)
       IN /\ tournaments' = [tournaments EXCEPT ![t] = r.t]
          /\ last' = Done("remove_participant", t, u, BoolRes(r.ok))
    /\ UNCHANGED <<payments, users, now, pc, loc>>

StartTournament(t, room_id, room_password) ==
    /\ tournaments[t].exists
    /\ LET r == start_tournament(tournaments[t], room_id, room_password, now)
       IN /\ tournaments' = [tournaments EXCEPT ![t] = r.t]
          /\ last' = [Done("start_tournament", t, 0, BoolRes(r.ok)) EXCEPT
                         !.arg = <<room_id, room_password>>]
    /\ UNCHANGED <<payments, users, now, pc, loc>>

CompleteTournament(t, winners) ==
    /\ tournaments[t].exists
    /\ LET r == complete_tournament(tournaments[t], winners, now)
       IN /\ tournaments' = [tournaments EXCEPT ![t] = r.t]
          /\ last' = [Done("complete_tournament", t, 0, BoolRes(r.ok)) EXCEPT
                         !.arg = winners]
    /\ UNCHANGED <<payments, users, now, pc, loc>>

CancelTournament(t, reason) ==
    /\ tournaments[t].exists
    /\ LET r == cancel_tournament(tournaments[t], reason, now)
       IN /\ tournaments' = [tournaments EXCEPT ![t] = r.t]
          /\ last' = [Done("cancel_tournament", t, 0, BoolRes(r.ok)) EXCEPT
                         !.arg = <<reason>>]
    /\ UNCHANGED <<payments, users, now, pc, loc>>

UpdateStatusBasedOnTime(t) ==
    /\ tournaments[t].exists
    /\ tournaments' = [tournaments EXCEPT ![t] = update_status_based_on_time(@, now)]
    /\ last' = Done("update_status_based_on_time", t, 0, "")
    /\ UNCHANGED <<payments, users, now, pc, loc>>

\* ------------------------------------------------------- handler operations
\* the checks of TournamentHandlers.join_tournament before its write
JoinUserCheck(user_data) ==
    IF ~user_data.exists THEN "user_not_found" ELSE "proceed"

\* variant: the already-registered check left out
JoinTournamentChecks_no_registered_check(user_data, tournament, user_id) ==
    IF ~tournament.exists THEN "not_found"
    ELSE IF ~user_data.paid \/ ~user_data.confirmed THEN "payment_required"
    ELSE "proceed"

JoinTournamentChecks(user_data, tournament, user_id) ==
    IF ~tournament.exists THEN "not_found"
    ELSE IF Contains(tournament.participants, user_id) THEN "already_registered"
    ELSE IF ~user_data.paid \/ ~user_data.confirmed THEN "payment_required"
    ELSE "proceed"

JoinChecks(user_data, tournament, user_id) ==
    IF JoinUserCheck(user_data) # "proceed" THEN JoinUserCheck(user_data)
    ELSE JoinTournamentChecks(user_data, tournament, user_id)

\* TournamentHandlers.join_tournament, run without interruption
JoinTournament(t, u) ==
    LET chk == JoinChecks(get_user(u), get_tournament(t), u)
        w == add_participant_to_tournament(tournaments, t, u)
    IN /\ IF chk # "proceed"
          THEN /\ tournaments' = tournaments
               /\ last' = Done("join", t, u, chk)
          ELSE /\ tournaments' = w.coll
               /\ last' = Done("join", t, u, IF w.ok THEN "joined" ELSE "failed")
       /\ UNCHANGED <<payments, users, now, pc, loc>>

\* variant: the not-registered check left out
LeaveChecks_no_registered_check(tournament, user_id) ==
    IF ~tournament.exists THEN "not_found" ELSE "proceed"

\* the checks of TournamentHandlers.leave_tournament before its write
LeaveChecks(tournament, user_id) ==
    IF ~tournament.exists THEN "not_found"
    ELSE IF ~Contains(tournament.participants, user_id) THEN "not_registered"
    ELSE "proceed"

\* TournamentHandlers.leave_tournament, run without interruption
LeaveTournament(t, u) ==
    LET tr == get_tournament(t)
        chk == LeaveChecks(tr, u)
        w == update_tournament(tournaments, t,
                               [participants |-> ListRemove(tr.participants, u)], now)
    IN /\ IF chk # "proceed"
          THEN /\ tournaments' = tournaments
               /\ last' = Done("leave", t, u, chk)
          ELSE /\ tournaments' = w.coll
               /\ last' = Done("leave", t, u, IF w.ok THEN "left" ELSE "failed")
       /\ UNCHANGED <<payments, users, now, pc, loc>>

\* the loop over participants: one send per entry, a failed send is skipped
RECURSIVE SentCount(_, _)
SentCount(participants, failing) ==
    IF participants = <<>> THEN 0
    ELSE (IF Head(participants) \in failing THEN 0 ELSE 1)
         + SentCount(Tail(participants), failing)

\* variant: the first failed send ends the loop
RECURSIVE Attempted_stops_at_failure(_, _)
Attempted_stops_at_failure(participants, failing) ==
    IF participants = <<>> THEN <<>>
    ELSE IF Head(participants) \in failing THEN <<Head(participants)>>
    ELSE <<Head(participants)>> \o Attempted_stops_at_failure(Tail(participants), failing)

\* the recipients send_message was called for, in order: the exception of a
\* failed send is caught inside the loop body and the loop goes on
RECURSIVE Attempted(_, _)
Attempted(participants, failing) ==
    IF participants = <<>> THEN <<>>
    ELSE <<Head(participants)>> \o Attempted(Tail(participants), failing)

\* AdminHandlers.send_room_command behind admin_required
SendRoomCommand(caller, t, room_id, room_password, failing) ==
    LET w == update_tournament(tournaments, t,
                 [room_id |-> room_id, room_password |-> room_password, status |-> LIVE], now)
        roster == w.coll[t].participants
    IN /\ IF ~is_admin(caller)
          THEN /\ tournaments' = tournaments
               /\ last' = [Done("send_room", t, 0, "denied") EXCEPT
                              !.arg = <<room_id, room_password>>]
          ELSE IF ~w.ok
          THEN /\ tournaments' = tournaments
               /\ last' = [Done("send_room", t, 0, "failed") EXCEPT
                              !.arg = <<room_id, room_password>>]
          ELSE /\ tournaments' = w.coll
               /\ last' = [Done("send_room", t, 0, "sent") EXCEPT
                              !.arg = <<room_id, room_password, failing,
                                        Attempted(roster, failing)>>,
                              !.sent = SentCount(Attempted(roster, failing), failing),
                              !.total = Len(roster)]
       /\ UNCHANGED <<payments, users, now, pc, loc>>

\* ------------------------------------------------------------ specification
Next ==
    \/ Tick
    \/ \E t \in TournamentIds, maxp \in MaxParticipantsInputs, minp \in MinParticipantsInputs,
          sched \in SchedInputs, deadline \in DeadlineInputs :
          CreateTournament(t, maxp, minp, sched, deadline)
    \/ \E t \in TournamentIds, u \in UserIds : AddParticipant(t, u)
    \/ \E t \in TournamentIds, u \in UserIds : RemoveParticipant(t, u)
    \/ \E t \in TournamentIds, r \in RoomInputs, pw \in PasswordInputs : StartTournament(t, r, pw)
    \/ \E t \in TournamentIds, w \in WinnersInputs : CompleteTournament(t, w)
    \/ \E t \in TournamentIds, reason \in ReasonInputs : CancelTournament(t, reason)
    \/ \E t \in TournamentIds : UpdateStatusBasedOnTime(t)
    \/ \E t \in TournamentIds, u \in UserIds : JoinTournament(t, u)
    \/ \E t \in TournamentIds, u \in UserIds : LeaveTournament(t, u)
    \/ \E c \in CallerIds, t \in TournamentIds, r \in RoomInputs, pw \in PasswordInputs,
          failing \in FailingInputs : SendRoomCommand(c, t, r, pw, failing)

Spec == Init /\ [][Next]_vars

\* ------------------------------------------- notification specification
\* the recipients whose chat refuses the message
NotifyFailingInputs == SUBSET UserIds

NextNotify ==
    \/ \E t \in TournamentIds, maxp \in MaxParticipantsInputs, minp \in MinParticipantsInputs,
          sched \in SchedInputs, deadline \in DeadlineInputs :
          CreateTournament(t, maxp, minp, sched, deadline)
    \/ \E t \in TournamentIds, u \in UserIds : JoinTournament(t, u)
    \/ \E c \in CallerIds, t \in TournamentIds, r \in RoomInputs, pw \in PasswordInputs,
          failing \in NotifyFailingInputs : SendRoomCommand(c, t, r, pw, failing)

SpecNotify == Init /\ [][NextNotify]_vars

\* ------------------------------------------- two-tournament specification
TwoTournamentIds == {"T1", "T2"}

\* the players acting on the two tournaments
TwoUserInputs == {1, 2}

\* a scheduled time that has come when the tournament is created
DueSchedInputs == {0}

InitTwo ==
    /\ tournaments = [t \in TwoTournamentIds |-> NoTournament]
    /\ users = [u \in UserIds |-> ConfirmedUser]
    /\ payments = <<>>
    /\ now = 0
    /\ last = NoOp
    /\ pc = [p \in Procs |-> "idle"]
    /\ loc = [p \in Procs |-> NoLocal]

NextTwo ==
    \/ \E t \in TwoTournamentIds, maxp \in MaxParticipantsInputs,
          minp \in MinParticipantsInputs, sched \in DueSchedInputs,
          deadline \in DeadlineInputs :
          CreateTournament(t, maxp, minp, sched, deadline)
    \/ \E t \in TwoTournamentIds, u \in TwoUserInputs : JoinTournament(t, u)
    \/ \E t \in TwoTournamentIds, u \in TwoUserInputs : LeaveTournament(t, u)
    \/ \E t \in TwoTournamentIds, r \in RoomInputs, pw \in PasswordInputs,
          failing \in FailingInputs : SendRoomCommand(ADMIN_ID, t, r, pw, failing)
    \/ \E t \in TwoTournamentIds, w \in WinnersInputs : CompleteTournament(t, w)
    \/ \E t \in TwoTournamentIds : CancelTournament(t, "rain")
    \/ \E t \in TwoTournamentIds : UpdateStatusBasedOnTime(t)

SpecTwo == InitTwo /\ [][NextTwo]_vars

\* ------------------------------------------- confirmation specification
\* the chat events of players and admin, from empty collections
NextConfirm ==
    \/ \E u \in UserIds : StartCommand(u)
    \/ \E u \in PaidUserInputs, utr_number \in UtrInputs : PaidCommand(u, utr_number)
    \/ \E c \in CallerIds, u \in UserIds : ConfirmPaymentCommand(c, u)
    \/ \E t \in TournamentIds, maxp \in MaxParticipantsInputs, minp \in MinParticipantsInputs,
          sched \in SchedInputs, deadline \in DeadlineInputs :
          CreateTournament(t, maxp, minp, sched, deadline)
    \/ \E t \in TournamentIds, u \in UserIds : JoinTournament(t, u)
    \/ \E t \in TournamentIds, u \in UserIds : LeaveTournament(t, u)

SpecConfirm == InitUsers /\ [][NextConfirm]_vars

\* ------------------------------------------- handlers over a failing gateway
\* Every method of class Database catches the exception of its driver call
\* and returns None (reads) or False (writes). A handler run is given the set
\* of its calls whose driver call raises.
GatewayCalls ==
    {"get_user", "get_tournament", "add_participant_to_tournament", "update_tournament",
     "get_payment_by_utr", "create_payment", "update_user"}

GatewayFailInputs == {{}} \cup {{call} : call \in GatewayCalls}

\* TournamentHandlers.join_tournament
JoinTournamentOverGateway(t, u, fails) ==
    LET user_data == IF "get_user" \in fails THEN NoUser ELSE get_user(u)
        tournament == IF "get_tournament" \in fails THEN NoTournament ELSE get_tournament(t)
        chk == JoinChecks(user_data, tournament, u)
        w == IF "add_participant_to_tournament" \in fails
             THEN [ok |-> FALSE, coll |-> tournaments]
             ELSE add_participant_to_tournament(tournaments, t, u)
    IN /\ IF chk # "proceed"
          THEN /\ tournaments' = tournaments
               /\ last' = [Done("join", t, u, chk) EXCEPT !.arg = <<fails>>]
          ELSE /\ tournaments' = w.coll
               /\ last' = [Done("join", t, u, IF w.ok THEN "joined" ELSE "failed") EXCEPT
                              !.arg = <<fails>>]
       /\ UNCHANGED <<payments, users, now, pc, loc>>

\* TournamentHandlers.leave_tournament
LeaveTournamentOverGateway(t, u, fails) ==
    LET tr == IF "get_tournament" \in fails THEN NoTournament ELSE get_tournament(t)
        chk == LeaveChecks(tr, u)
        w == IF "update_tournament" \in fails
             THEN [ok |-> FALSE, coll |-> tournaments]
             ELSE update_tournament(tournaments, t,
                                    [participants |-> ListRemove(tr.participants, u)], now)
    IN /\ IF chk # "proceed"
          THEN /\ tournaments' = tournaments
               /\ last' = [Done("leave", t, u, chk) EXCEPT !.arg = <<fails>>]
          ELSE /\ tournaments' = w.coll
               /\ last' = [Done("leave", t, u, IF w.ok THEN "left" ELSE "failed") EXCEPT
                              !.arg = <<fails>>]
       /\ UNCHANGED <<payments, users, now, pc, loc>>

\* AdminHandlers.send_room_command: the write, then the read of the record
SendRoomCommandOverGateway(caller, t, room_id, room_password, failing, fails) ==
    LET w == IF "update_tournament" \in fails
             THEN [ok |-> FALSE, coll |-> tournaments]
             ELSE update_tournament(tournaments, t,
                      [room_id |-> room_id, room_password |-> room_password,
                       status |-> LIVE], now)
        tournament == IF "get_tournament" \in fails THEN NoTournament ELSE w.coll[t]
        roster == tournament.participants
    IN /\ IF ~is_admin(caller)
          THEN /\ tournaments' = tournaments
               /\ last' = [Done("send_room", t, 0, "denied") EXCEPT
                              !.arg = <<room_id, room_password, failing, <<>>, fails>>]
          ELSE IF ~w.ok
          THEN /\ tournaments' = tournaments
               /\ last' = [Done("send_room", t, 0, "failed") EXCEPT
                              !.arg = <<room_id, room_password, failing, <<>>, fails>>]
          ELSE IF ~tournament.exists
          THEN /\ tournaments' = w.coll
               /\ last' = [Done("send_room", t, 0, "not_found") EXCEPT
                              !.arg = <<room_id, room_password, failing, <<>>, fails>>]
          ELSE /\ tournaments' = w.coll
               /\ last' = [Done("send_room", t, 0, "sent") EXCEPT
                              !.arg = <<room_id, room_password, failing,
                                        Attempted(roster, failing), fails>>,
                              !.sent = SentCount(Attempted(roster, failing), failing),
                              !.total = Len(roster)]
       /\ UNCHANGED <<payments, users, now, pc, loc>>

\* PaymentHandlers.paid_command: the result of update_user is not read
PaidCommandOverGateway(u, utr_number, fails) ==
    LET existing_payment == IF "get_payment_by_utr" \in fails THEN NoPayment
                            ELSE get_payment_by_utr(utr_number)
        user_data == IF "get_user" \in fails THEN NoUser ELSE get_user(u)
        w == IF "create_payment" \in fails
             THEN [ok |-> FALSE, coll |-> payments]
             ELSE create_payment(payments, PaymentData(u, utr_number))
    IN /\ IF ~IsUtrFormat(utr_number)
          THEN /\ UNCHANGED <<payments, users>>
               /\ last' = [Done("paid", "", u, "invalid_utr") EXCEPT
                              !.arg = <<utr_number, fails>>]
          ELSE IF existing_payment.exists
          THEN /\ UNCHANGED <<payments, users>>
               /\ last' = [Done("paid", "", u, "utr_used") EXCEPT
                              !.arg = <<utr_number, fails>>]
          ELSE IF ~user_data.exists
          THEN /\ UNCHANGED <<payments, users>>
               /\ last' = [Done("paid", "", u, "user_not_found") EXCEPT
                              !.arg = <<utr_number, fails>>]
          ELSE IF w.ok
          THEN /\ payments' = w.coll
               /\ users' = (IF "update_user" \in fails THEN users
                            ELSE update_user(users, u, [paid |-> TRUE]))
               /\ last' = [Done("paid", "", u, "submitted") EXCEPT
                              !.arg = <<utr_number, fails>>]
          ELSE /\ UNCHANGED <<payments, users>>
               /\ last' = [Done("paid", "", u, "failed") EXCEPT
                              !.arg = <<utr_number, fails>>]
       /\ UNCHANGED <<tournaments, now, pc, loc>>

NextGateway ==
    \/ \E t \in TournamentIds, maxp \in MaxParticipantsInputs, minp \in MinParticipantsInputs,
          sched \in SchedInputs, deadline \in DeadlineInputs :
          CreateTournament(t, maxp, minp, sched, deadline)
    \/ \E t \in TournamentIds, u \in UserIds, fails \in GatewayFailInputs :
          JoinTournamentOverGateway(t, u, fails)
    \/ \E t \in TournamentIds, u \in UserIds, fails \in GatewayFailInputs :
          LeaveTournamentOverGateway(t, u, fails)
    \/ \E c \in CallerIds, t \in TournamentIds, r \in RoomInputs, pw \in PasswordInputs,
          failing \in FailingInputs, fails \in GatewayFailInputs :
          SendRoomCommandOverGateway(c, t, r, pw, failing, fails)
    \/ \E u \in PaidUserInputs, utr_number \in UtrInputs, fails \in GatewayFailInputs :
          PaidCommandOverGateway(u, utr_number, fails)

SpecGateway == Init /\ [][NextGateway]_vars

\* ------------------------------------------- eligibility specification
NextUsers ==
    \/ \E u \in UserIds : StartCommand(u)
    \/ \E c \in CallerIds, u \in UserIds : ConfirmPaymentCommand(c, u)
    \/ \E u \in UserIds : BanUser(u)
    \/ \E u \in UserIds : UnbanUser(u)
    \/ \E t \in TournamentIds, maxp \in MaxParticipantsInputs, minp \in MinParticipantsInputs,
          sched \in SchedInputs, deadline \in DeadlineInputs :
          CreateTournament(t, maxp, minp, sched, deadline)
    \/ \E t \in TournamentIds, u \in UserIds : JoinTournament(t, u)
    \/ \E t \in TournamentIds, u \in UserIds : LeaveTournament(t, u)

SpecUsers == InitUsers /\ [][NextUsers]_vars

\* --------------------------------------------- entity-only specification
\* the methods of class Tournament alone on a stored record, with a wider
\* choice of arguments: two room ids, two winners lists, a date that does
\* not parse
EntityRoomInputs == {"123", "456"}

EntityWinnersInputs == {<<"w1">>, <<"w1", "w2">>}

EntitySchedInputs == {NoneTime, 2}

NextEntity ==
    \/ Tick
    \/ \E t \in TournamentIds, maxp \in MaxParticipantsInputs, minp \in MinParticipantsInputs,
          sched \in EntitySchedInputs, deadline \in DeadlineInputs :
          CreateTournament(t, maxp, minp, sched, deadline)
    \/ \E t \in TournamentIds, u \in UserIds : AddParticipant(t, u)
    \/ \E t \in TournamentIds, u \in UserIds : RemoveParticipant(t, u)
    \/ \E t \in TournamentIds, room_id \in EntityRoomInputs, room_password \in PasswordInputs :
          StartTournament(t, room_id, room_password)
    \/ \E t \in TournamentIds, winners \in EntityWinnersInputs : CompleteTournament(t, winners)
    \/ \E t \in TournamentIds, reason \in ReasonInputs : CancelTournament(t, reason)
    \/ \E t \in TournamentIds : UpdateStatusBasedOnTime(t)

SpecEntity == Init /\ [][NextEntity]_vars

\* ------------------------------------------------ creation specification
\* Database.create_tournament handed any document: participant limits that
\* do or do not satisfy max > min > 0, any status, an empty or a filled
\* participants list; the record may be changed between two creations
CreateMaxInputs == {1, 2}

CreateMinInputs == {0, 1, 2}

CreateStatusInputs == {UPCOMING, LIVE}

CreateRosterInputs == {<<>>, <<1>>}

CreateInputs ==
    {[TournamentData(maxp, minp, sched, deadline) EXCEPT !.status = st, !.participants = r] :
        maxp \in CreateMaxInputs, minp \in CreateMinInputs, sched \in SchedInputs,
        deadline \in DeadlineInputs, st \in CreateStatusInputs, r \in CreateRosterInputs}

CreateTournamentData(t, data) ==
    LET r == create_tournament(tournaments, t, data, now)
    IN /\ tournaments' = r.coll
       /\ last' = [Done("create", t, 0, IF r.ok THEN "created" ELSE "failed") EXCEPT
                      !.arg = <<data>>]
       /\ UNCHANGED <<payments, users, now, pc, loc>>

NextCreate ==
    \/ Tick
    \/ \E t \in TournamentIds, data \in CreateInputs : CreateTournamentData(t, data)
    \/ \E t \in TournamentIds, u \in UserIds : AddParticipant(t, u)
    \/ \E t \in TournamentIds, reason \in ReasonInputs : CancelTournament(t, reason)

SpecCreate == Init /\ [][NextCreate]_vars

\* ------------------------------------------------- validation (pure code)
\* date and time strings as an admin may type them; strptime with the format
\* "%d/%m/%Y %H:%M" accepts only a well-formed pair
DateInputs == {"", "tomorrow", "01/01/2030"}

TimeInputs == {"", "noon", "02:00"}

\* the clock value a well-formed time string denotes
HourOf(time_str) == IF time_str = "02:00" THEN 2 ELSE NoneTime

\* helpers.parse_date_time and the strptime of Tournament.get_datetime: the
\* moment the pair denotes, or None when the pair does not parse
parse_date_time(date_str, time_str) ==
    IF date_str = "01/01/2030" /\ HourOf(time_str) # NoneTime
    THEN HourOf(time_str) ELSE NoneTime

\* errors.append / warnings.append under a condition
Opt(cond, msg) == IF cond THEN <<msg>> ELSE <<>>

\* Tournament.validate on an entity T, read at the given clock
validate(T, clock) ==
    LET errors ==
            Opt(T.tournament_id = "", "Tournament ID is required")
            \o Opt(T.name = "", "Tournament name is required")
            \o Opt(T.date = "", "Tournament date is required")
            \o Opt(T.time = "", "Tournament time is required")
            \o Opt(T.entry_fee < 0, "Entry fee cannot be negative")
            \o Opt(T.min_participants <= 0, "Minimum participants must be positive")
            \o Opt(T.max_participants <= T.min_participants,
                   "Maximum participants must be greater than minimum")
        warnings ==
            Opt(T.entry_fee >= 0 /\ T.entry_fee < 10, "Entry fee is very low")
            \o Opt(T.entry_fee >= 10 /\ T.entry_fee > 1000, "Entry fee is quite high")
            \o Opt(T.max_participants > 500, "Very large tournament (>500 players)")
            \o Opt(get_datetime(T) # NoneTime /\ get_datetime(T) <= clock,
                   "Tournament time is in the past")
    IN [valid |-> Len(errors) = 0, errors |-> errors, warnings |-> warnings]

\* helpers.validate_tournament_data on a document, read at the given clock
validate_tournament_data(tournament_data, clock) ==
    LET tournament_datetime == parse_date_time(tournament_data.date, tournament_data.time)
        dated == tournament_data.date # "" /\ tournament_data.time # ""
        errors ==
            Opt(tournament_data.name = "", "Missing required field: name")
            \o Opt(tournament_data.type = "", "Missing required field: type")
            \o Opt(tournament_data.date = "", "Missing required field: date")
            \o Opt(tournament_data.time = "", "Missing required field: time")
            \o Opt(tournament_data.entry_fee = 0, "Missing required field: entry_fee")
            \o Opt(tournament_data.type \notin {"solo", "duo", "squad"},
                   "Invalid tournament type. Must be one of: ['solo', 'duo', 'squad']")
            \o Opt(tournament_data.entry_fee < 0, "Entry fee must be a positive number")
            \o Opt(dated /\ tournament_datetime = NoneTime, "Invalid date/time format")
            \o Opt(dated /\ tournament_datetime # NoneTime /\ tournament_datetime <= clock,
                   "Tournament time must be in the future")
        warnings ==
            Opt(tournament_data.entry_fee >= 0 /\ tournament_data.entry_fee < 10,
                "Entry fee is very low")
            \o Opt(tournament_data.entry_fee >= 10 /\ tournament_data.entry_fee > 1000,
                   "Entry fee is quite high")
    IN [valid |-> Len(errors) = 0, errors |-> errors, warnings |-> warnings]

EntryFeeInputs == {0 - 5, 0, 50, 2000}

\* Tournament entities handed to validate; sched is what get_datetime gives
\* for the entity's date and time
ValidateInputs ==
    {[tournament_id |-> id, name |-> name, date |-> d, time |-> tm, entry_fee |-> fee,
      min_participants |-> minp, max_participants |-> maxp,
      sched |-> parse_date_time(d, tm)] :
        id \in {"", "T1"}, name \in {"", "HEADSHOT KING CHALLENGE"},
        d \in DateInputs, tm \in TimeInputs, fee \in {0 - 5, 50},
        minp \in {0, 1, 2}, maxp \in {2}}

\* documents handed to validate_tournament_data
TournamentDataInputs ==
    {[name |-> name, type |-> type, date |-> d, time |-> tm, entry_fee |-> fee] :
        name \in {"", "HEADSHOT KING CHALLENGE"}, type \in {"", "solo", "trio"},
        d \in DateInputs, tm \in TimeInputs, fee \in EntryFeeInputs}

Validate(T) ==
    LET r == validate(T, now)
    IN /\ last' = [Done("validate", "", 0, BoolRes(r.valid)) EXCEPT
                      !.arg = <<T, r.errors, r.warnings>>]
       /\ UNCHANGED <<payments, tournaments, users, now, pc, loc>>

ValidateTournamentData(tournament_data) ==
    LET r == validate_tournament_data(tournament_data, now)
    IN /\ last' = [Done("validate_tournament_data", "", 0, BoolRes(r.valid)) EXCEPT
                      !.arg = <<tournament_data, r.errors, r.warnings>>]
       /\ UNCHANGED <<payments, tournaments, users, now, pc, loc>>

\* ------------------------------------------------- prize pool (pure code)
KILL_BASED == "kill_based"
RANK_BASED == "rank_based"
FIXED == "fixed"
PrizeType == {KILL_BASED, RANK_BASED, FIXED}

\* the average number of kills per participant assumed by the estimate
AverageKills == 3

\* details.get(key, 0)
DetailsGet(details, key) == IF key \in DOMAIN details THEN details[key] ELSE 0

\* variant: the rank-based pool grows with the number of participants
calculate_total_prize_pool_rank_per_player(T) ==
    LET participant_count == get_participant_count(T)
        details == T.prize_structure.details
    IN IF T.prize_structure.prize_type = KILL_BASED
       THEN ((participant_count * AverageKills) * DetailsGet(details, "per_kill"))
            + DetailsGet(details, "top_killer_bonus")
       ELSE IF T.prize_structure.prize_type = RANK_BASED
       THEN participant_count * (DetailsGet(details, "first") + DetailsGet(details, "second")
                                 + DetailsGet(details, "third"))
       ELSE IF T.prize_structure.prize_type = FIXED
       THEN DetailsGet(details, "winners_amount")
       ELSE 0

\* variant: the top-killer bonus is left out of the kill-based pool
calculate_total_prize_pool_no_bonus(T) ==
    LET participant_count == get_participant_count(T)
        details == T.prize_structure.details
    IN IF T.prize_structure.prize_type = KILL_BASED
       THEN (participant_count * AverageKills) * DetailsGet(details, "per_kill")
       ELSE IF T.prize_structure.prize_type = RANK_BASED
       THEN DetailsGet(details, "first") + DetailsGet(details, "second")
            + DetailsGet(details, "third")
       ELSE IF T.prize_structure.prize_type = FIXED
       THEN DetailsGet(details, "winners_amount")
       ELSE 0

\* Tournament.calculate_total_prize_pool
calculate_total_prize_pool(T) ==
    LET participant_count == get_participant_count(T)
        details == T.prize_structure.details
    IN IF T.prize_structure.prize_type = KILL_BASED
       THEN ((participant_count * AverageKills) * DetailsGet(details, "per_kill"))
            + DetailsGet(details, "top_killer_bonus")
       ELSE IF T.prize_structure.prize_type = RANK_BASED
       THEN DetailsGet(details, "first") + DetailsGet(details, "second")
            + DetailsGet(details, "third")
       ELSE IF T.prize_structure.prize_type = FIXED
       THEN DetailsGet(details, "winners_amount")
       ELSE 0

\* rosters of every length up to MaxRosterLen, in rising and in falling
\* order of user id
RosterInputs ==
    {[i \in 1..n |-> i] : n \in 0..MaxRosterLen}
    \cup {[i \in 1..n |-> n + 1 - i] : n \in 0..MaxRosterLen}

DetailsInputs ==
    {[per_kill |-> 25, top_killer_bonus |-> 200], [per_kill |-> 25],
     [first |-> 2000, second |-> 1200, third |-> 800], [first |-> 2000],
     [winners_amount |-> 500]}

\* entities handed to calculate_total_prize_pool: the fields it reads
PrizeInputs ==
    {[participants |-> r, prize_structure |-> [prize_type |-> pt, details |-> d]] :
        r \in RosterInputs, pt \in PrizeType, d \in DetailsInputs}

CalculateTotalPrizePool(T) ==
    /\ last' = [Done("calculate_total_prize_pool", "", 0, "") EXCEPT
                   !.arg = <<T, calculate_total_prize_pool(T)>>]
    /\ UNCHANGED <<payments, tournaments, users, now, pc, loc>>

\* ------------------------------------- prize pool of a stored record
\* data.get(key, default) on a stored document
DictGet(data, key, default) == IF key \in DOMAIN data THEN data[key] ELSE default

\* the empty dict
EmptyDict == [key \in {} |-> 0]

\* PrizeType(value): the member with that value; any other value raises
PrizeTypeOf(value) == IF value \in PrizeType THEN value ELSE "ValueError"

\* PrizeStructure.from_dict
PrizeStructure_from_dict(data) ==
    [prize_type |-> PrizeTypeOf(DictGet(data, "prize_type", FIXED)),
     details |-> DictGet(data, "details", EmptyDict)]

\* Tournament.from_dict, the fields the prize pool reads: prize_structure is
\* built from the document's prize_structure key, the empty dict when the
\* key is absent; the legacy branch is taken only for a value that is no dict
from_dict(data) ==
    LET prize_structure_data == DictGet(data, "prize_structure", [is_dict |-> TRUE])
    IN [participants |-> DictGet(data, "participants", <<>>),
        prize_structure |->
           IF prize_structure_data.is_dict
           THEN PrizeStructure_from_dict(prize_structure_data)
           ELSE [prize_type |-> PrizeTypeOf(DictGet(data, "prize_type", FIXED)),
                 details |-> DictGet(data, "prize_details", EmptyDict)]]

\* TournamentHandlers._calculate_prize_pool on a stored document
handler_calculate_prize_pool(tournament) ==
    LET prize_details == DictGet(tournament, "prize_details", EmptyDict)
        prize_type == DictGet(tournament, "prize_type", "")
    IN IF prize_type = "fixed" THEN DetailsGet(prize_details, "winners_amount")
       ELSE IF prize_type = "rank_based"
       THEN DetailsGet(prize_details, "first") + DetailsGet(prize_details, "second")
            + DetailsGet(prize_details, "third")
       ELSE IF prize_type = "kill_based"
       THEN ((Len(DictGet(tournament, "participants", <<>>)) * 3)
             * DetailsGet(prize_details, "per_kill"))
            + DetailsGet(prize_details, "top_killer_bonus")
       ELSE 0

\* the documents of the admin create commands: solo, duo and squad
AdminTournamentData ==
    {[tournament_id |-> "T1", type |-> "solo", prize_type |-> "kill_based",
      prize_details |-> [per_kill |-> 25, top_killer_bonus |-> 200],
      status |-> "upcoming"],
     [tournament_id |-> "T1", type |-> "duo", prize_type |-> "position_based",
      prize_details |-> [first |-> 600, second |-> 300, third |-> 100],
      status |-> "upcoming"],
     [tournament_id |-> "T1", type |-> "squad", prize_type |-> "rank_based",
      prize_details |-> [first |-> 2000, second |-> 1200, third |-> 800],
      status |-> "upcoming"]}

\* the stored documents: what create_tournament inserts for an admin document,
\* with the roster the joins have given it
StoredRecords ==
    {[key \in DOMAIN data \cup {"participants"} |->
         IF key = "participants" THEN r ELSE data[key]] :
        data \in AdminTournamentData, r \in RosterInputs}

\* both computations on one stored document
CalculatePrizePoolOfRecord(tournament) ==
    /\ last' = [Done("_calculate_prize_pool", "", 0, tournament.type) EXCEPT
                   !.arg = <<tournament, handler_calculate_prize_pool(tournament),
                             calculate_total_prize_pool(from_dict(tournament))>>]
    /\ UNCHANGED <<payments, tournaments, users, now, pc, loc>>

\* --------------------------------------------------- brackets (pure code)
SOLO == "solo"
DUO == "duo"
SQUAD == "squad"
TournamentType == {SOLO, DUO, SQUAD}

\* participants[a:b] with 0-based bounds, b clipped to the length
Slice(participants, a, b) ==
    SubSeq(participants, a + 1, IF b < Len(participants) THEN b ELSE Len(participants))

\* variant: a trailing unpaired participant gets no team
RECURSIVE DuoTeams_drop_unpaired(_, _)
DuoTeams_drop_unpaired(participants, i) ==
    IF i >= Len(participants) THEN <<>>
    ELSE (IF i + 1 < Len(participants)
          THEN <<<<participants[i + 1], participants[i + 2]>>>>
          ELSE <<>>)
         \o DuoTeams_drop_unpaired(participants, i + 2)

\* the DUO loop: for i in range(0, participant_count, 2), from index i on
RECURSIVE DuoTeams(_, _)
DuoTeams(participants, i) ==
    IF i >= Len(participants) THEN <<>>
    ELSE (IF i + 1 < Len(participants)
          THEN <<<<participants[i + 1], participants[i + 2]>>>>
          ELSE <<<<participants[i + 1]>>>>)
         \o DuoTeams(participants, i + 2)

\* variant: a trailing squad of fewer than 4 is left out
RECURSIVE SquadGroups_drop_partial(_, _)
SquadGroups_drop_partial(participants, i) ==
    IF i >= Len(participants) THEN <<>>
    ELSE (IF i + 4 <= Len(participants) THEN <<Slice(participants, i, i + 4)>> ELSE <<>>)
         \o SquadGroups_drop_partial(participants, i + 4)

\* the SQUAD loop: for i in range(0, participant_count, 4), from index i on
RECURSIVE SquadGroups(_, _)
SquadGroups(participants, i) ==
    IF i >= Len(participants) THEN <<>>
    ELSE <<Slice(participants, i, i + 4)>> \o SquadGroups(participants, i + 4)

\* variant: the solo match lists the players in reverse roster order
generate_tournament_brackets_solo_reversed(participants, tournament_type) ==
    IF tournament_type = SOLO
    THEN [type |-> "solo", total |-> Len(participants),
          groups |-> <<[i \in 1..Len(participants) |->
                          participants[Len(participants) + 1 - i]]>>]
    ELSE IF tournament_type = DUO
    THEN LET teams == DuoTeams(participants, 0)
         IN [type |-> "duo", total |-> Len(teams), groups |-> teams]
    ELSE IF tournament_type = SQUAD
    THEN LET squads == SquadGroups(participants, 0)
         IN [type |-> "squad", total |-> Len(squads), groups |-> squads]
    ELSE [type |-> "", total |-> 0, groups |-> <<>>]

\* TournamentManager.generate_tournament_brackets: the type, the reported
\* total and the groups (matches, teams or squads)
generate_tournament_brackets(participants, tournament_type) ==
    IF tournament_type = SOLO
    THEN [type |-> "solo", total |-> Len(participants), groups |-> <<participants>>]
    ELSE IF tournament_type = DUO
    THEN LET teams == DuoTeams(participants, 0)
         IN [type |-> "duo", total |-> Len(teams), groups |-> teams]
    ELSE IF tournament_type = SQUAD
    THEN LET squads == SquadGroups(participants, 0)
         IN [type |-> "squad", total |-> Len(squads), groups |-> squads]
    ELSE [type |-> "", total |-> 0, groups |-> <<>>]

GenerateTournamentBrackets(participants, tournament_type) ==
    /\ last' = [Done("generate_tournament_brackets", "", 0, tournament_type) EXCEPT
                   !.arg = <<participants,
                             generate_tournament_brackets(participants, tournament_type)>>]
    /\ UNCHANGED <<payments, tournaments, users, now, pc, loc>>

\* ----------------------------------------- pure-function specifications
NextValidate ==
    \/ Tick
    \/ \E T \in ValidateInputs : Validate(T)
    \/ \E tournament_data \in TournamentDataInputs : ValidateTournamentData(tournament_data)

SpecValidate == Init /\ [][NextValidate]_vars

NextFunctions ==
    \/ \E T \in PrizeInputs : CalculateTotalPrizePool(T)
    \/ \E tournament \in StoredRecords : CalculatePrizePoolOfRecord(tournament)
    \/ \E participants \in RosterInputs, tournament_type \in TournamentType :
          GenerateTournamentBrackets(participants, tournament_type)

SpecFunctions == Init /\ [][NextFunctions]_vars

\* ------------------------------------------- user statistics specification
\* User(user_id) as the dataclass builds it: every flag false, every counter
\* zero, no history
FreshUser ==
    [exists |-> TRUE, paid |-> FALSE, confirmed |-> FALSE, is_banned |-> FALSE,
     total_tournaments |-> 0, total_wins |-> 0, total_kills |-> 0,
     tournament_history |-> <<>>]

\* User.add_tournament_participation
add_tournament_participation(U, tournament_id) ==
    IF ~Contains(U.tournament_history, tournament_id)
    THEN [U EXCEPT !.tournament_history = Append(@, tournament_id),
                   !.total_tournaments = @ + 1]
    ELSE U

\* User.add_tournament_win
add_tournament_win(U, tournament_id, kills) ==
    [U EXCEPT !.total_wins = @ + 1, !.total_kills = @ + kills]

\* the errors User.validate reports about the statistics
UserStatsErrors(U) ==
    Opt(U.total_tournaments < 0, "Total tournaments cannot be negative")
    \o Opt(U.total_wins > U.total_tournaments, "Total wins cannot exceed total tournaments")
    \o Opt(U.total_kills < 0, "Total kills cannot be negative")

KillsInputs == {0, 2}

AddTournamentParticipation(u, tournament_id) ==
    /\ users' = [users EXCEPT ![u] = add_tournament_participation(@, tournament_id)]
    /\ last' = Done("add_tournament_participation", tournament_id, u, "")
    /\ UNCHANGED <<payments, tournaments, now, pc, loc>>

\* the number of recorded wins is capped at MaxWins
AddTournamentWin(u, tournament_id, kills) ==
    /\ users[u].total_wins < MaxWins
    /\ users' = [users EXCEPT ![u] = add_tournament_win(@, tournament_id, kills)]
    /\ last' = [Done("add_tournament_win", tournament_id, u, "") EXCEPT !.arg = <<kills>>]
    /\ UNCHANGED <<payments, tournaments, now, pc, loc>>

InitStats ==
    /\ tournaments = [t \in TournamentIds |-> NoTournament]
    /\ users = [u \in UserIds |-> FreshUser]
    /\ payments = <<>>
    /\ now = 0
    /\ last = NoOp
    /\ pc = [p \in Procs |-> "idle"]
    /\ loc = [p \in Procs |-> NoLocal]

NextStats ==
    \/ \E u \in {1}, tournament_id \in {"T1", "T2"} :
          AddTournamentParticipation(u, tournament_id)
    \/ \E u \in {1}, tournament_id \in {"T1", "T2"}, kills \in KillsInputs :
          AddTournamentWin(u, tournament_id, kills)

SpecStats == InitStats /\ [][NextStats]_vars

\* ------------------------------------- handlers interleaved at their awaits
\* Each process runs one handler; a handler gives up control at every await,
\* so its database calls are separate steps.
Finish(p, res) ==
    /\ pc' = [pc EXCEPT ![p] = "done"]
    /\ loc' = [loc EXCEPT ![p].res = res]

\* join_tournament up to its first read: get_user
JoinGetUser(p, t, u) ==
    /\ pc[p] = "idle"
    /\ LET ud == get_user(u)
       IN IF JoinUserCheck(ud) # "proceed"
          THEN /\ pc' = [pc EXCEPT ![p] = "done"]
               /\ loc' = [loc EXCEPT ![p] = [NoLocal EXCEPT !.op = "join", !.t = t, !.u = u,
                                                            !.res = JoinUserCheck(ud)]]
          ELSE /\ pc' = [pc EXCEPT ![p] = "join_got_user"]
               /\ loc' = [loc EXCEPT ![p] = [NoLocal EXCEPT !.op = "join", !.t = t, !.u = u,
                                                            !.user_data = ud]]
    /\ UNCHANGED <<payments, tournaments, users, now, last>>

\* join_tournament: get_tournament and the checks on the two documents read
JoinGetTournament(p) ==
    /\ pc[p] = "join_got_user"
    /\ LET chk == JoinTournamentChecks(loc[p].user_data, get_tournament(loc[p].t), loc[p].u)
       IN IF chk # "proceed"
          THEN Finish(p, chk)
          ELSE /\ pc' = [pc EXCEPT ![p] = "join_write"]
               /\ loc' = loc
    /\ UNCHANGED <<payments, tournaments, users, now, last>>

\* join_tournament: add_participant_to_tournament and the reply
JoinWrite(p) ==
    /\ pc[p] = "join_write"
    /\ LET w == add_participant_to_tournament(tournaments, loc[p].t, loc[p].u)
       IN /\ tournaments' = w.coll
          /\ Finish(p, IF w.ok THEN "joined" ELSE "failed")
    /\ UNCHANGED <<payments, users, now, last>>

\* leave_tournament: get_tournament, the checks, the local list with the user removed
LeaveGetTournament(p, t, u) ==
    /\ pc[p] = "idle"
    /\ LET tr == get_tournament(t)
           chk == LeaveChecks(tr, u)
       IN IF chk # "proceed"
          THEN /\ pc' = [pc EXCEPT ![p] = "done"]
               /\ loc' = [loc EXCEPT ![p] = [NoLocal EXCEPT !.op = "leave", !.t = t, !.u = u,
                                                            !.res = chk]]
          ELSE /\ pc' = [pc EXCEPT ![p] = "leave_write"]
               /\ loc' = [loc EXCEPT ![p] =
                             [NoLocal EXCEPT !.op = "leave", !.t = t, !.u = u,
                                             !.participants = ListRemove(tr.participants, u)]]
    /\ UNCHANGED <<payments, tournaments, users, now, last>>

\* leave_tournament: update_tournament with the local list, and the reply
LeaveWrite(p) ==
    /\ pc[p] = "leave_write"
    /\ LET w == update_tournament(tournaments, loc[p].t,
                                  [participants |-> loc[p].participants], now)
       IN /\ tournaments' = w.coll
          /\ Finish(p, IF w.ok THEN "left" ELSE "failed")
    /\ UNCHANGED <<payments, users, now, last>>

\* paid_command up to its first read: the format check and get_payment_by_utr
PaidGetPayment(p, u, utr_number) ==
    /\ pc[p] = "idle"
    /\ IF ~IsUtrFormat(utr_number)
       THEN /\ pc' = [pc EXCEPT ![p] = "done"]
            /\ loc' = [loc EXCEPT ![p] = [NoLocal EXCEPT !.op = "paid", !.u = u,
                                             !.utr_number = utr_number, !.res = "invalid_utr"]]
       ELSE IF get_payment_by_utr(utr_number).exists
       THEN /\ pc' = [pc EXCEPT ![p] = "done"]
            /\ loc' = [loc EXCEPT ![p] = [NoLocal EXCEPT !.op = "paid", !.u = u,
                                             !.utr_number = utr_number, !.res = "utr_used"]]
       ELSE /\ pc' = [pc EXCEPT ![p] = "paid_get_user"]
            /\ loc' = [loc EXCEPT ![p] = [NoLocal EXCEPT !.op = "paid", !.u = u,
                                             !.utr_number = utr_number]]
    /\ UNCHANGED <<payments, tournaments, users, now, last>>

\* paid_command: get_user
PaidGetUser(p) ==
    /\ pc[p] = "paid_get_user"
    /\ IF ~get_user(loc[p].u).exists
       THEN Finish(p, "user_not_found")
       ELSE /\ pc' = [pc EXCEPT ![p] = "paid_create"]
            /\ loc' = loc
    /\ UNCHANGED <<payments, tournaments, users, now, last>>

\* paid_command: create_payment; a refused insert ends the handler
PaidCreatePayment(p) ==
    /\ pc[p] = "paid_create"
    /\ LET w == create_payment(payments, PaymentData(loc[p].u, loc[p].utr_number))
       IN /\ payments' = w.coll
          /\ IF w.ok
             THEN /\ pc' = [pc EXCEPT ![p] = "paid_update_user"]
                  /\ loc' = loc
             ELSE Finish(p, "failed")
    /\ UNCHANGED <<tournaments, users, now, last>>

\* paid_command: update_user with paid true, and the reply
PaidUpdateUser(p) ==
    /\ pc[p] = "paid_update_user"
    /\ users' = update_user(users, loc[p].u, [paid |-> TRUE])
    /\ Finish(p, "submitted")
    /\ UNCHANGED <<payments, tournaments, now, last>>

\* a player who has started the bot and not yet paid
RegisteredUser == [exists |-> TRUE, paid |-> FALSE, confirmed |-> FALSE, is_banned |-> FALSE]

InitPaid ==
    /\ tournaments = [t \in TournamentIds |-> NoTournament]
    /\ users = [u \in UserIds |-> RegisteredUser]
    /\ payments = <<>>
    /\ now = 0
    /\ last = NoOp
    /\ pc = [p \in Procs |-> "idle"]
    /\ loc = [p \in Procs |-> NoLocal]

NextPaid ==
    \/ \E p \in Procs, u \in PaidUserInputs, utr_number \in UtrInputs :
          PaidGetPayment(p, u, utr_number)
    \/ \E p \in Procs : PaidGetUser(p)
    \/ \E p \in Procs : PaidCreatePayment(p)
    \/ \E p \in Procs : PaidUpdateUser(p)

\* /paid handlers
SpecPaid == InitPaid /\ [][NextPaid]_vars

\* a tournament created with capacity 2, empty or already joined by player 2
CreatedOnly ==
    create_tournament([t \in TournamentIds |-> NoTournament], "T1",
                      TournamentData(2, 1, 2, NoneTime), 0).coll

InitConc ==
    /\ \E joined \in BOOLEAN :
          tournaments = (IF joined
                         THEN add_participant_to_tournament(CreatedOnly, "T1", 2).coll
                         ELSE CreatedOnly)
    /\ users = [u \in UserIds |-> ConfirmedUser]
    /\ payments = <<>>
    /\ now = 0
    /\ last = NoOp
    /\ pc = [p \in Procs |-> "idle"]
    /\ loc = [p \in Procs |-> NoLocal]

NextJoin ==
    \/ \E p \in Procs, t \in TournamentIds, u \in UserIds : JoinGetUser(p, t, u)
    \/ \E p \in Procs : JoinGetTournament(p)
    \/ \E p \in Procs : JoinWrite(p)

\* join handlers only
SpecJoin == InitConc /\ [][NextJoin]_vars

NextConc ==
    \/ \E p \in Procs, t \in TournamentIds, u \in UserIds : JoinGetUser(p, t, u)
    \/ \E p \in Procs : JoinGetTournament(p)
    \/ \E p \in Procs : JoinWrite(p)
    \/ \E p \in Procs, t \in TournamentIds, u \in UserIds : LeaveGetTournament(p, t, u)
    \/ \E p \in Procs : LeaveWrite(p)

\* join and leave handlers
SpecConc == InitConc /\ [][NextConc]_vars

\* ====================================================================
\* Properties
\* ====================================================================
Roster(t) == tournaments[t].participants

Count(s, x) == Cardinality({i \in 1..Len(s) : s[i] = x})

JoinOps == {"join", "add_participant"}

LeaveOps == {"leave", "remove_participant"}

\* the operation just finished reported success
Succeeded(l) == l.res \in {"joined", "left", "true", "sent", "created"}

StatusEdges ==
    {<<UPCOMING, LIVE>>, <<LIVE, COMPLETED>>, <<UPCOMING, CANCELLED>>, <<LIVE, CANCELLED>>}

\* the instant registration closes: the explicit deadline if set, else one
\* hour before the scheduled time; NoneTime when neither is known
EffectiveDeadline(T) ==
    IF T.registration_deadline # NoneTime THEN T.registration_deadline
    ELSE IF T.sched # NoneTime THEN T.sched - RegistrationCutoffHours
    ELSE NoneTime

\* C1: every change of a tournament's status follows an edge of
\* UPCOMING -> LIVE -> COMPLETED, UPCOMING -> CANCELLED, LIVE -> CANCELLED;
\* in particular no step leaves COMPLETED or CANCELLED.
C1_StatusOnlyMovesForward ==
    [][\A t \in TournamentIds :
          tournaments[t].exists =>
              \/ tournaments'[t].status = tournaments[t].status
              \/ <<tournaments[t].status, tournaments'[t].status>> \in StatusEdges]_vars

\* C2: the roster never holds more than max_participants entries, and a join
\* attempted on a full tournament fails and leaves the roster unchanged.
C2_JoinRespectsCapacity ==
    [][\A t \in TournamentIds :
          tournaments'[t].exists =>
              /\ Len(tournaments'[t].participants) <= tournaments'[t].max_participants
              /\ (/\ last'.op \in JoinOps
                  /\ last'.t = t
                  /\ tournaments[t].exists
                  /\ is_full(tournaments[t]))
                 => (~Succeeded(last') /\ tournaments'[t].participants = Roster(t))]_vars

\* C3: a join that directly follows a successful join of the same user in
\* the same tournament reports already-registered (the entity method: False),
\* leaves the roster unchanged, and the roster holds the user exactly once.
C3_SecondJoinIsAlreadyRegistered ==
    [][\A t \in TournamentIds, u \in UserIds :
          (/\ last.op \in JoinOps /\ last.t = t /\ last.u = u /\ Succeeded(last)
           /\ last'.op \in JoinOps /\ last'.t = t /\ last'.u = u)
          => /\ last'.res = (IF last'.op = "join" THEN "already_registered" ELSE "false")
             /\ tournaments'[t].participants = Roster(t)
             /\ Count(tournaments'[t].participants, u) = 1]_vars

\* C3 witness: the handler has just answered already-registered to a member
C3_Witness ==
    /\ last.op = "join"
    /\ last.res = "already_registered"
    /\ Count(Roster(last.t), last.u) = 1

\* the processes whose handler finished with the given operation and outcome
Finished(op, t, u, res) ==
    {p \in Procs : pc[p] = "done" /\ loc[p].op = op /\ loc[p].t = t
                   /\ loc[p].u = u /\ loc[p].res = res}

\* C4: among interleaved join handlers for one (tournament, user), at most
\* one reports a successful join, and the roster holds the user at most once.
C4_AtMostOneSuccessfulJoin ==
    \A t \in TournamentIds, u \in UserIds :
        /\ Cardinality(Finished("join", t, u, "joined")) <= 1
        /\ Count(Roster(t), u) <= 1

\* C4 witness: two handlers raced for the same pair; both passed the
\* membership check, one joined and the other's write changed nothing
C4_Witness ==
    \E t \in TournamentIds, u \in UserIds :
        /\ Finished("join", t, u, "joined") # {}
        /\ Finished("join", t, u, "failed") # {}
        /\ Count(Roster(t), u) = 1

\* C5: once every handler has finished, the roster holds every user whose
\* join succeeded and no user whose leave succeeded (users for whom both a
\* join and a leave succeeded are left out).
C5_NoLostRosterUpdate ==
    (\A p \in Procs : pc[p] = "done") =>
        \A t \in TournamentIds, u \in UserIds :
            /\ (Finished("join", t, u, "joined") # {} /\ Finished("leave", t, u, "left") = {})
               => Contains(Roster(t), u)
            /\ (Finished("leave", t, u, "left") # {} /\ Finished("join", t, u, "joined") = {})
               => ~Contains(Roster(t), u)

\* C6: a join attempted while the status is not UPCOMING fails and leaves
\* the roster unchanged.
C6_JoinOnlyWhenUpcoming ==
    [][\A t \in TournamentIds :
          (/\ last'.op \in JoinOps /\ last'.t = t
           /\ tournaments[t].exists
           /\ tournaments[t].status # UPCOMING)
          => (~Succeeded(last') /\ tournaments'[t].participants = Roster(t))]_vars

\* C7: a join attempted at or after the registration deadline fails and
\* leaves the roster unchanged.
C7_JoinOnlyBeforeDeadline ==
    [][\A t \in TournamentIds :
          (/\ last'.op \in JoinOps /\ last'.t = t
           /\ tournaments[t].exists
           /\ EffectiveDeadline(tournaments[t]) # NoneTime
           /\ now >= EffectiveDeadline(tournaments[t]))
          => (~Succeeded(last') /\ tournaments'[t].participants = Roster(t))]_vars

\* the tournament-side preconditions of join hold for user u
JoinableBy(T, u, clock) ==
    /\ T.exists
    /\ T.status = UPCOMING
    /\ ~is_full(T)
    /\ ~Contains(T.participants, u)
    /\ (EffectiveDeadline(T) = NoneTime \/ clock < EffectiveDeadline(T))

\* C8: on an otherwise joinable tournament, a banned user's join fails and
\* an unpaid or unconfirmed user's join reports payment-required; neither is
\* added to the roster.  (The banned case is stated without the name of its
\* failure outcome: any outcome other than a successful join satisfies it.)
C8_JoinGatedOnEligibility ==
    [][\A t \in TournamentIds, u \in UserIds :
          (/\ last'.op = "join" /\ last'.t = t /\ last'.u = u
           /\ users[u].exists
           /\ JoinableBy(tournaments[t], u, now))
          => /\ users[u].is_banned
                => (~Succeeded(last') /\ tournaments'[t].participants = Roster(t))
             /\ (~users[u].is_banned /\ ~(users[u].paid /\ users[u].confirmed))
                => (last'.res = "payment_required"
                    /\ tournaments'[t].participants = Roster(t))]_vars

\* the outcome the join preconditions give when evaluated in the order:
\* exists, UPCOMING, not full, not registered, before deadline, eligible
OrderedJoinOutcome(T, U, u, clock) ==
    IF ~T.exists THEN "not_found"
    ELSE IF T.status # UPCOMING THEN "registration_closed"
    ELSE IF is_full(T) THEN "tournament_full"
    ELSE IF Contains(T.participants, u) THEN "already_registered"
    ELSE IF EffectiveDeadline(T) # NoneTime /\ clock >= EffectiveDeadline(T)
         THEN "registration_closed"
    ELSE IF U.is_banned THEN "user_banned"
    ELSE IF ~(U.paid /\ U.confirmed) THEN "payment_required"
    ELSE "joined"

\* C9: the join handler reports the outcome of the first failing
\* precondition in that order.
C9_JoinPreconditionOrder ==
    [][\A t \in TournamentIds, u \in UserIds :
          (last'.op = "join" /\ last'.t = t /\ last'.u = u /\ users[u].exists)
          => last'.res = OrderedJoinOutcome(tournaments[t], users[u], u, now)]_vars

\* C10: a leave attempted while the status is COMPLETED or CANCELLED fails
\* and leaves the roster unchanged.
C10_LeaveOnlyWhenUpcomingOrLive ==
    [][\A t \in TournamentIds :
          (/\ last'.op \in LeaveOps /\ last'.t = t
           /\ tournaments[t].exists
           /\ tournaments[t].status \in {COMPLETED, CANCELLED})
          => (~Succeeded(last') /\ tournaments'[t].participants = Roster(t))]_vars

\* C11: a leave by a user who is not in the roster reports not-registered
\* (False from Tournament.remove_participant) and leaves the whole tournament
\* record as it was: roster, status and updated_at included.
C11_LeaveOfNonMemberChangesNothing ==
    [][\A t \in TournamentIds, u \in UserIds :
          (/\ tournaments[t].exists
           /\ ~Contains(Roster(t), u)
           /\ last'.op \in LeaveOps /\ last'.t = t /\ last'.u = u)
          => /\ last'.res = (IF last'.op = "leave" THEN "not_registered" ELSE "false")
             /\ tournaments'[t] = tournaments[t]]_vars

\* a non-member's leave request was turned down on a tournament that has a
\* roster, at a clock later than the record's last update
C11_Witness ==
    \E t \in TournamentIds :
        /\ last.op = "leave" /\ last.t = t /\ last.res = "not_registered"
        /\ Roster(t) # <<>>
        /\ tournaments[t].updated_at < now

\* the roster without every entry equal to u
Without(s, u) ==
    LET Keep(x) == x # u IN SelectSeq(s, Keep)

\* C12: a successful join puts the user at the end of the roster, the rest
\* untouched; a successful leave deletes exactly that user and keeps the
\* other entries in their order.
C12_JoinAppendsLeaveDeletes ==
    [][\A t \in TournamentIds, u \in UserIds :
          (last'.t = t /\ last'.u = u /\ Succeeded(last'))
          => /\ last'.op \in JoinOps => tournaments'[t].participants = Append(Roster(t), u)
             /\ last'.op \in LeaveOps
                   => /\ tournaments'[t].participants = Without(Roster(t), u)
                      /\ Len(tournaments'[t].participants) = Len(Roster(t)) - 1]_vars

\* a leave has just succeeded and at least two other players remain
C12_Witness ==
    \E t \in TournamentIds :
        /\ last.op \in LeaveOps /\ last.t = t /\ Succeeded(last)
        /\ Len(Roster(t)) >= 2

\* C13: while the tournament is UPCOMING, a successful leave followed at once
\* by a join of the same user brings the roster back to the size it had
\* before the leave, with the user in it exactly once.
C13_LeaveThenJoinRestoresSize ==
    [][\A t \in TournamentIds, u \in UserIds :
          (/\ last.op \in LeaveOps /\ last.t = t /\ last.u = u /\ Succeeded(last)
           /\ tournaments[t].status = UPCOMING
           /\ last'.op \in JoinOps /\ last'.t = t /\ last'.u = u)
          => /\ Len(tournaments'[t].participants) = last.size_before
             /\ Count(tournaments'[t].participants, u) = 1]_vars

\* the operations that start a tournament: the entity method and the admin
\* send-room command
StartOps == {"start_tournament", "send_room"}

\* C14: a start on a tournament that is not UPCOMING fails and leaves status,
\* room_id and room_password as they were; a start that succeeds stores the
\* given room id and password and makes the tournament LIVE.
C14_StartOnlyFromUpcoming ==
    [][\A t \in TournamentIds :
          (tournaments[t].exists /\ last'.op \in StartOps /\ last'.t = t)
          => /\ tournaments[t].status # UPCOMING
                   => /\ ~Succeeded(last')
                      /\ tournaments'[t].status = tournaments[t].status
                      /\ tournaments'[t].room_id = tournaments[t].room_id
                      /\ tournaments'[t].room_password = tournaments[t].room_password
             /\ Succeeded(last')
                   => /\ tournaments'[t].status = LIVE
                      /\ tournaments'[t].room_id = last'.arg[1]
                      /\ tournaments'[t].room_password = last'.arg[2]]_vars

\* C15: a start on an UPCOMING tournament with fewer participants than
\* min_participants fails; the tournament stays UPCOMING and its room fields
\* stay blank.
C15_StartNeedsMinParticipants ==
    [][\A t \in TournamentIds :
          (/\ tournaments[t].exists /\ tournaments[t].status = UPCOMING
           /\ Len(Roster(t)) < tournaments[t].min_participants
           /\ last'.op \in StartOps /\ last'.t = t)
          => /\ ~Succeeded(last')
             /\ tournaments'[t].status = UPCOMING
             /\ tournaments'[t].room_id = ""
             /\ tournaments'[t].room_password = ""]_vars

\* C16: complete_tournament on a tournament that is not LIVE returns False
\* and leaves status and winners as they were; on a LIVE tournament it
\* returns True, stores the given winners list and makes the status
\* COMPLETED.
C16_CompleteOnlyFromLive ==
    [][\A t \in TournamentIds :
          (tournaments[t].exists /\ last'.op = "complete_tournament" /\ last'.t = t)
          => IF tournaments[t].status # LIVE
             THEN /\ last'.res = "false"
                  /\ tournaments'[t].status = tournaments[t].status
                  /\ tournaments'[t].winners = tournaments[t].winners
             ELSE /\ last'.res = "true"
                  /\ tournaments'[t].status = COMPLETED
                  /\ tournaments'[t].winners = last'.arg]_vars

\* a second complete, with another winners list, was refused on a
\* COMPLETED tournament
C16_Witness ==
    \E t \in TournamentIds :
        /\ last.op = "complete_tournament" /\ last.t = t /\ last.res = "false"
        /\ tournaments[t].status = COMPLETED
        /\ tournaments[t].winners # <<>>
        /\ tournaments[t].winners # last.arg

\* C17: cancel_tournament on an UPCOMING or LIVE tournament returns True,
\* makes the status CANCELLED and leaves a description that carries the
\* reason; on a COMPLETED or CANCELLED tournament it returns False and
\* changes neither status nor description.
C17_CancelExceptWhenFinal ==
    [][\A t \in TournamentIds :
          (tournaments[t].exists /\ last'.op = "cancel_tournament" /\ last'.t = t)
          => IF tournaments[t].status \in {UPCOMING, LIVE}
             THEN /\ last'.res = "true"
                  /\ tournaments'[t].status = CANCELLED
                  /\ tournaments'[t].description # <<>>
                  /\ last'.arg[1] # "" => Contains(tournaments'[t].description, last'.arg[1])
             ELSE /\ last'.res = "false"
                  /\ tournaments'[t].status = tournaments[t].status
                  /\ tournaments'[t].description = tournaments[t].description]_vars

\* a second cancel, giving a reason, was refused on a tournament cancelled
\* without one
C17_Witness ==
    \E t \in TournamentIds :
        /\ last.op = "cancel_tournament" /\ last.t = t /\ last.res = "false"
        /\ last.arg # <<"">>
        /\ tournaments[t].status = CANCELLED
        /\ tournaments[t].description = <<"Cancelled">>

\* the scheduled time of T is known and lies at or before the clock
SchedPassed(T, clock) == T.sched # NoneTime /\ T.sched <= clock

\* the scheduled time of T plus the auto-complete delay is known and lies at
\* or before the clock
SchedLongPassed(T, clock) == T.sched # NoneTime /\ T.sched + AutoCompleteHours <= clock

\* C18: update_status_based_on_time moves an UPCOMING tournament whose
\* scheduled time has passed to LIVE when it has at least min_participants
\* participants and to CANCELLED otherwise, moves a LIVE tournament to
\* COMPLETED once the scheduled time plus 3 hours has passed, and changes the
\* status in no other case.
C18_ReconcileStatusMoves ==
    [][\A t \in TournamentIds :
          (tournaments[t].exists /\ last'.op = "update_status_based_on_time" /\ last'.t = t)
          => tournaments'[t].status =
                (IF tournaments[t].status = UPCOMING /\ SchedPassed(tournaments[t], now)
                 THEN (IF Len(Roster(t)) >= tournaments[t].min_participants
                       THEN LIVE ELSE CANCELLED)
                 ELSE IF tournaments[t].status = LIVE /\ SchedLongPassed(tournaments[t], now)
                 THEN COMPLETED
                 ELSE tournaments[t].status)]_vars

\* the reconcile has just cancelled a tournament for want of participants
C18_Witness ==
    \E t \in TournamentIds :
        /\ last.op = "update_status_based_on_time" /\ last.t = t
        /\ tournaments[t].status = CANCELLED
        /\ tournaments[t].description = <<"Cancelled due to insufficient participants">>
        /\ tournaments[t].updated_at = now

\* C19: in every state where update_status_based_on_time has no status to
\* move (COMPLETED, CANCELLED, UPCOMING before the scheduled time, LIVE before
\* the scheduled time plus 3 hours) it leaves every field of the tournament,
\* updated_at included, as it was.
C19_ReconcileNoOpElsewhere ==
    [][\A t \in TournamentIds :
          (/\ tournaments[t].exists
           /\ last'.op = "update_status_based_on_time" /\ last'.t = t
           /\ \/ tournaments[t].status \in {COMPLETED, CANCELLED}
              \/ tournaments[t].status = UPCOMING /\ ~SchedPassed(tournaments[t], now)
              \/ tournaments[t].status = LIVE /\ ~SchedLongPassed(tournaments[t], now))
          => tournaments'[t] = tournaments[t]]_vars

\* C20: a second update_status_based_on_time right after a first one, at the
\* same clock value, leaves the tournament as the first one left it.
C20_ReconcileIdempotent ==
    [][\A t \in TournamentIds :
          (/\ last.op = "update_status_based_on_time" /\ last.t = t
           /\ last'.op = "update_status_based_on_time" /\ last'.t = t
           /\ now' = now)
          => tournaments'[t] = tournaments[t]]_vars

\* C21: in every reachable state a tournament holds winners only while its
\* status is COMPLETED.
C21_WinnersOnlyWhenCompleted ==
    \A t \in TournamentIds :
        tournaments[t].winners # <<>> => tournaments[t].status = COMPLETED

\* C22: in every reachable state an UPCOMING tournament has a blank room_id
\* and a blank room_password; the room fields are set only once the status
\* has left UPCOMING for LIVE or a later status.
C22_RoomFieldsBlankWhileUpcoming ==
    \A t \in TournamentIds :
        (tournaments[t].room_id # "" \/ tournaments[t].room_password # "")
        => tournaments[t].status \in {LIVE, COMPLETED, CANCELLED}

\* the admin has just sent the room details: the room fields are set and
\* the tournament is LIVE
C22_Witness ==
    \E t \in TournamentIds :
        /\ last.op = "send_room" /\ last.t = t /\ last.res = "sent"
        /\ tournaments[t].room_id # "" /\ tournaments[t].room_password # ""
        /\ tournaments[t].status = LIVE

\* the participant limits of a document satisfy max > min > 0
LimitsValid(data) ==
    data.max_participants > data.min_participants /\ data.min_participants > 0

\* C23: a create that succeeds leaves a record with
\* max_participants > min_participants > 0; a create whose document breaks
\* that is rejected and persists nothing.
C23_CreateEnforcesLimits ==
    [][\A t \in TournamentIds :
          (last'.op = "create" /\ last'.t = t /\ last'.arg # <<>>)
          => /\ Succeeded(last') => LimitsValid(tournaments'[t])
             /\ ~LimitsValid(last'.arg[1])
                   => ~Succeeded(last') /\ tournaments'[t] = tournaments[t]]_vars

\* C24: a create that succeeds leaves a record with status UPCOMING and an
\* empty roster whatever the document carried; a create under an id that is
\* already taken fails and leaves the existing record as it was.
C24_CreateNormalisesAndRefusesDuplicate ==
    [][\A t \in TournamentIds :
          (last'.op = "create" /\ last'.t = t)
          => /\ Succeeded(last')
                   => /\ tournaments'[t].exists
                      /\ tournaments'[t].status = UPCOMING
                      /\ tournaments'[t].participants = <<>>
             /\ tournaments[t].exists
                   => last'.res = "failed" /\ tournaments'[t] = tournaments[t]]_vars

\* a create was refused for an id whose record has a player and is
\* cancelled, while the document carried another status
C24_Witness ==
    \E t \in TournamentIds :
        /\ last.op = "create" /\ last.t = t /\ last.res = "failed"
        /\ last.arg # <<>> /\ last.arg[1].status = LIVE
        /\ tournaments[t].status = CANCELLED
        /\ tournaments[t].participants # <<>>


\* -------------------------------------------------------------- validation
ValidateOps == {"validate", "validate_tournament_data"}

\* the messages with which the two validators speak about the date and time
DateErrors ==
    {"Tournament date is required", "Tournament time is required",
     "Missing required field: date", "Missing required field: time",
     "Invalid date/time format", "Tournament time must be in the future"}
PastWarnings == {"Tournament time is in the past"}

\* C25: validation of a tournament whose date and time parse to a moment that
\* is not strictly in the future reports a warning about it and no error
\* about the date (the date leaves the result valid); validation of a
\* tournament whose date and time do not parse reports the result invalid.
C25_PastIsWarningUnparseableIsError ==
    [][last'.op \in ValidateOps =>
          LET data == last'.arg[1]
              errors == last'.arg[2]
              warnings == last'.arg[3]
              moment == parse_date_time(data.date, data.time)
          IN /\ (moment # NoneTime /\ moment <= now) =>
                    /\ \E w \in PastWarnings : Contains(warnings, w)
                    /\ \A e \in DateErrors : ~Contains(errors, e)
             /\ moment = NoneTime => last'.res = "false"]_vars


\* ------------------------------------------------------ end-to-end scenario
\* a tournament as the scenario begins: created, nobody registered, limits
\* min 1 and max 2
FreshTournament(T) ==
    /\ T.exists /\ T.status = UPCOMING /\ T.participants = <<>>
    /\ T.min_participants = 1 /\ T.max_participants = 2

\* the scenario run on entity T for users A, B, C with the methods of the
\* entity, each step on the entity the step before left
Scenario(T, A, B, C, room_id, room_password, winners, reason, clock) ==
    LET r1 == add_participant(T, A, clock)
        r2 == add_participant(r1.t, A, clock)
        r3 == add_participant(r2.t, B, clock)
        r4 == add_participant(r3.t, C, clock)
        r5 == start_tournament(r4.t, room_id, room_password, clock)
        r6 == complete_tournament(r5.t, winners, clock)
        r7 == cancel_tournament(r6.t, reason, clock)
    IN /\ r1.ok /\ r1.t.participants = <<A>>
       /\ ~r2.ok /\ r2.t = r1.t
       /\ ~is_full(r1.t) /\ r1.t.status = UPCOMING /\ Contains(r1.t.participants, A)
       /\ r3.ok /\ r3.t.participants = <<A, B>>
       /\ ~r4.ok /\ r4.t = r3.t /\ is_full(r3.t)
       /\ r5.ok /\ r5.t.status = LIVE /\ r5.t.participants = <<A, B>>
       /\ r6.ok /\ r6.t.status = COMPLETED /\ r6.t.winners = winners
       /\ ~r7.ok /\ r7.t = r6.t /\ r7.t.status = COMPLETED

\* C26: on a tournament with min 1 and max 2 and nobody registered, join A
\* succeeds, join A again is refused because A is registered, join B succeeds,
\* join C is refused because the tournament is full, start succeeds and gives
\* LIVE, complete with one winner record gives COMPLETED, and a cancel after
\* that is refused and leaves COMPLETED.
C26_EndToEndScenario ==
    \A t \in TournamentIds :
        FreshTournament(tournaments[t]) =>
            \A A \in UserIds : \A B \in UserIds \ {A} :
                \A C \in UserIds \ {A, B}, room_id \in EntityRoomInputs,
                   room_password \in PasswordInputs, reason \in ReasonInputs :
                    Scenario(tournaments[t], A, B, C, room_id, room_password,
                             <<"w1">>, reason, now)

\* the scenario has been played to its end: two users registered, the
\* tournament completed with one winner record, and a cancel just refused
C26_Witness ==
    \E t \in TournamentIds :
        /\ last.op = "cancel_tournament" /\ last.t = t /\ last.res = "false"
        /\ tournaments[t].status = COMPLETED
        /\ Len(tournaments[t].participants) = 2
        /\ tournaments[t].max_participants = 2 /\ tournaments[t].min_participants = 1
        /\ tournaments[t].winners = <<"w1">>


\* ---------------------------------------------------------------- prize pool
\* C27: for a rank-based tournament the prize pool is first + second + third
\* (4000 for 2000, 1200, 800), and it is the same for every roster, so no
\* join or leave changes it.
C27_RankBasedPoolIgnoresRoster ==
    [][(last'.op = "calculate_total_prize_pool"
        /\ last'.arg[1].prize_structure.prize_type = RANK_BASED) =>
          LET T == last'.arg[1]
              details == T.prize_structure.details
              pool == last'.arg[2]
          IN /\ pool = DetailsGet(details, "first") + DetailsGet(details, "second")
                       + DetailsGet(details, "third")
             /\ details = [first |-> 2000, second |-> 1200, third |-> 800] => pool = 4000
             /\ \A r \in RosterInputs :
                   calculate_total_prize_pool([T EXCEPT !.participants = r]) = pool]_vars

\* the pool of a rank-based tournament with prizes 2000, 1200 and 800 and a
\* roster of several participants has been calculated as 4000
C27_Witness ==
    /\ last.op = "calculate_total_prize_pool"
    /\ last.arg[1].prize_structure.prize_type = RANK_BASED
    /\ last.arg[1].prize_structure.details = [first |-> 2000, second |-> 1200, third |-> 800]
    /\ Len(last.arg[1].participants) = 10
    /\ last.arg[2] = 4000

\* C28: for a kill-based tournament the prize pool is
\* (participant count * 3) * per_kill + top_killer_bonus for every roster
\* size: 950 for per_kill 25, bonus 200 and 10 participants, and the bonus
\* alone for an empty roster.
C28_KillBasedPool ==
    [][(last'.op = "calculate_total_prize_pool"
        /\ last'.arg[1].prize_structure.prize_type = KILL_BASED) =>
          LET T == last'.arg[1]
              details == T.prize_structure.details
              n == Len(T.participants)
              pool == last'.arg[2]
          IN /\ pool = ((n * 3) * DetailsGet(details, "per_kill"))
                       + DetailsGet(details, "top_killer_bonus")
             /\ (details = [per_kill |-> 25, top_killer_bonus |-> 200] /\ n = 10)
                    => pool = 950
             /\ n = 0 => pool = DetailsGet(details, "top_killer_bonus")]_vars

\* the pool of a kill-based tournament with per_kill 25, bonus 200 and 10
\* participants has been calculated as 950
C28_Witness ==
    /\ last.op = "calculate_total_prize_pool"
    /\ last.arg[1].prize_structure.prize_type = KILL_BASED
    /\ last.arg[1].prize_structure.details = [per_kill |-> 25, top_killer_bonus |-> 200]
    /\ Len(last.arg[1].participants) = 10
    /\ last.arg[2] = 950


\* ------------------------------------------------------------------ brackets
\* the members of the groups, group after group
RECURSIVE Flatten(_)
Flatten(groups) ==
    IF groups = <<>> THEN <<>> ELSE Head(groups) \o Flatten(Tail(groups))

\* the sizes of the groups, in order
Sizes(groups) == [i \in 1..Len(groups) |-> Len(groups[i])]

\* groups of exactly k members each, except that the final one may hold fewer,
\* and none empty
GroupsOf(groups, k) ==
    /\ \A i \in 1..Len(groups) : Len(groups[i]) \in 1..k
    /\ \A i \in 1..(Len(groups) - 1) : Len(groups[i]) = k

\* C29: for the SQUAD type the brackets are consecutive groups of 4 in the
\* order of the roster; only the final group may have fewer than 4 members
\* and no group is empty; 10 participants give groups of sizes 4, 4, 2.
C29_SquadGroupsOfFour ==
    [][(last'.op = "generate_tournament_brackets" /\ last'.res = SQUAD) =>
          LET participants == last'.arg[1]
              brackets == last'.arg[2]
          IN /\ brackets.type = "squad"
             /\ Flatten(brackets.groups) = participants
             /\ GroupsOf(brackets.groups, 4)
             /\ brackets.total = Len(brackets.groups)
             /\ Len(participants) = 10 => Sizes(brackets.groups) = <<4, 4, 2>>]_vars

\* squads have been generated for a roster of 10: three groups, the last of 2
C29_Witness ==
    /\ last.op = "generate_tournament_brackets" /\ last.res = SQUAD
    /\ Len(last.arg[1]) = 10
    /\ Sizes(last.arg[2].groups) = <<4, 4, 2>>

\* C30: for the DUO type the brackets pair consecutive roster entries in
\* order; with an odd roster the last participant forms a group alone, so
\* there are ceil(n/2) teams and every participant is in one.
C30_DuoPairsWithBye ==
    [][(last'.op = "generate_tournament_brackets" /\ last'.res = DUO) =>
          LET participants == last'.arg[1]
              brackets == last'.arg[2]
              n == Len(participants)
          IN /\ brackets.type = "duo"
             /\ Flatten(brackets.groups) = participants
             /\ GroupsOf(brackets.groups, 2)
             /\ Len(brackets.groups) = (n + 1) \div 2
             /\ brackets.total = (n + 1) \div 2
             /\ n % 2 = 1 => brackets.groups[Len(brackets.groups)] = <<participants[n]>>]_vars

\* teams have been generated for an odd roster of several participants: the
\* last participant is alone in the last team
C30_Witness ==
    /\ last.op = "generate_tournament_brackets" /\ last.res = DUO
    /\ Len(last.arg[1]) = 5
    /\ Len(last.arg[2].groups) = 3
    /\ last.arg[2].groups[3] = <<last.arg[1][5]>>


\* C31: the brackets follow the roster order for every type: SOLO gives one
\* group holding all participants, and for SOLO, DUO and SQUAD the groups
\* put one after the other are exactly the roster handed in; the same roster
\* and type always give the same brackets.
C31_BracketsKeepRosterOrder ==
    [][last'.op = "generate_tournament_brackets" =>
          LET participants == last'.arg[1]
              brackets == last'.arg[2]
          IN /\ last'.res \in TournamentType
             /\ brackets.type = last'.res
             /\ Flatten(brackets.groups) = participants
             /\ last'.res = SOLO =>
                    /\ brackets.groups = <<participants>>
                    /\ brackets.total = Len(participants)
             /\ brackets = generate_tournament_brackets(participants, last'.res)]_vars

\* SOLO brackets have been generated for a roster of several participants
\* that is not in rising order of user id: one group, the roster as it was
C31_Witness ==
    /\ last.op = "generate_tournament_brackets" /\ last.res = SOLO
    /\ Len(last.arg[1]) >= 3
    /\ last.arg[1][1] > last.arg[1][2]
    /\ last.arg[2].groups = <<last.arg[1]>>


\* ------------------------------------------------------------- notification
\* the number of entries of the sequence that are not in the set
RECURSIVE CountOutside(_, _)
CountOutside(seq, set) ==
    IF seq = <<>> THEN 0
    ELSE (IF Head(seq) \in set THEN 0 ELSE 1) + CountOutside(Tail(seq), set)

\* C32: when the room details are sent, a delivery is attempted to every
\* entry of the roster whichever deliveries fail, the reported count is the
\* number of deliveries that succeeded, the reported total is the roster
\* size, and the count never exceeds the attempts.
C32_NotificationBestEffort ==
    [][\A t \in TournamentIds :
          (last'.op = "send_room" /\ last'.t = t /\ last'.res = "sent") =>
             LET failing == last'.arg[3]
                 attempted == last'.arg[4]
             IN /\ attempted = tournaments'[t].participants
                /\ last'.sent = CountOutside(tournaments'[t].participants, failing)
                /\ last'.total = Len(tournaments'[t].participants)
                /\ last'.sent <= Len(attempted)]_vars

\* room details were sent to a roster of three whose first recipient failed
\* and whose later recipients were reached: 2 of 3
C32_Witness ==
    \E t \in TournamentIds :
        /\ last.op = "send_room" /\ last.t = t /\ last.res = "sent"
        /\ Len(tournaments[t].participants) = 3
        /\ last.arg[3] = {tournaments[t].participants[1]}
        /\ last.sent = 2 /\ last.total = 3


\* ------------------------------------------------------------------ payments
\* the payment documents carrying the UTR number
PaymentsWithUtr(utr_number) ==
    {i \in 1..Len(payments) : payments[i].utr_number = utr_number}

\* the payment documents submitted by the user
PaymentsOf(u) == {i \in 1..Len(payments) : payments[i].user_id = u}

\* C35: however /paid submissions interleave, no two payment documents carry
\* the same UTR number, and a user's paid flag is set only when a payment
\* document of that user was created: a submission refused as a duplicate
\* sets no flag.
C35_OnePaymentPerUtr ==
    /\ \A utr_number \in UtrInputs : Cardinality(PaymentsWithUtr(utr_number)) <= 1
    /\ \A u \in UserIds : users[u].paid => PaymentsOf(u) # {}
    /\ \A p \in Procs :
          (pc[p] = "done" /\ loc[p].op = "paid" /\ loc[p].res = "submitted") =>
             \E i \in PaymentsWithUtr(loc[p].utr_number) : payments[i].user_id = loc[p].u

\* two users raced with the same UTR number; both passed the look-up, one
\* document was created, the other insert was refused and its user is unpaid
C35_Witness ==
    \E p \in Procs, q \in Procs :
        /\ pc[p] = "done" /\ loc[p].op = "paid" /\ loc[p].res = "submitted"
        /\ pc[q] = "done" /\ loc[q].op = "paid" /\ loc[q].res = "failed"
        /\ loc[p].utr_number = loc[q].utr_number /\ loc[p].u # loc[q].u
        /\ users[loc[p].u].paid /\ ~users[loc[q].u].paid
        /\ Cardinality(PaymentsWithUtr(loc[p].utr_number)) = 1


\* ------------------------------------------------------------ gateway failure
HandlerOps == {"join", "leave", "send_room", "paid"}

\* the replies with which a handler reports that the operation was done
SuccessReplies == {"joined", "left", "sent", "submitted"}

\* C33: whenever a join, leave, send-room or /paid handler reports anything
\* but success, whichever of its database calls failed, the tournaments,
\* users and payments collections are as they were before it ran.
C33_FailureLeavesNoEffect ==
    [][(last'.op \in HandlerOps /\ last'.res \notin SuccessReplies) =>
          /\ tournaments' = tournaments
          /\ users' = users
          /\ payments' = payments]_vars


\* --------------------------------------------------------------- confirmation
\* C36: a user's confirmed flag turns true only in a /confirm command issued
\* by the admin id; /start, /paid, join and leave never make a user
\* confirmed; and a user who enters a roster is paid and confirmed at that
\* moment.
C36_ConfirmedOnlyByAdmin ==
    [][/\ \A u \in UserIds :
            (users'[u].confirmed /\ ~users[u].confirmed) =>
               /\ last'.op = "confirm" /\ last'.u = u /\ last'.res = "confirmed"
               /\ last'.arg = <<ADMIN_ID>>
       /\ last'.op \in {"start_command", "paid", "join", "leave"} =>
            \A u \in UserIds : users'[u].confirmed = users[u].confirmed
       /\ \A t \in TournamentIds, u \in UserIds :
            (Contains(tournaments'[t].participants, u)
             /\ ~Contains(tournaments[t].participants, u)) =>
               users[u].paid /\ users[u].confirmed]_vars

\* a player started the bot, submitted a payment, was confirmed and has just
\* joined, while some other player who submitted a payment is still
\* unconfirmed
C36_Witness ==
    \E t \in TournamentIds, u \in UserIds, v \in UserIds :
        /\ last.op = "join" /\ last.t = t /\ last.u = u /\ last.res = "joined"
        /\ Contains(tournaments[t].participants, u)
        /\ PaymentsOf(u) # {} /\ users[u].confirmed
        /\ PaymentsOf(v) # {} /\ users[v].paid /\ ~users[v].confirmed


\* --------------------------------------------------------------- independence
TournamentOps ==
    {"join", "leave", "send_room", "complete_tournament", "cancel_tournament",
     "update_status_based_on_time"}

\* C34: a join, leave, start, complete, cancel or reconcile on one tournament
\* leaves every field of every other tournament as it was.
C34_OtherTournamentsUnchanged ==
    [][\A x \in TwoTournamentIds : \A y \in TwoTournamentIds \ {x} :
          (last'.op \in TournamentOps /\ last'.t = x) =>
             tournaments'[y] = tournaments[y]]_vars

\* room details were sent for one tournament, which is now live with both
\* players, while the other tournament is still upcoming with one player and
\* blank room fields
C34_Witness ==
    \E x \in TwoTournamentIds : \E y \in TwoTournamentIds \ {x} :
        /\ last.op = "send_room" /\ last.t = x /\ last.res = "sent"
        /\ tournaments[x].status = LIVE /\ Len(tournaments[x].participants) = 2
        /\ tournaments[y].exists /\ tournaments[y].status = UPCOMING
        /\ Len(tournaments[y].participants) = 1 /\ tournaments[y].room_id = ""


\* ---------------------------------------------------- registration predicate
\* C37: is_registration_open and add_participant agree: when registration is
\* open and the user is not in the roster, add_participant succeeds, and when
\* add_participant succeeds, registration was open just before the call.
C37_RegistrationOpenAgreesWithAdd ==
    [][\A t \in TournamentIds :
          (last'.op = "add_participant" /\ last'.t = t) =>
             /\ (is_registration_open(tournaments[t], now)
                 /\ ~Contains(tournaments[t].participants, last'.u))
                    => last'.res = "true"
             /\ last'.res = "true" => is_registration_open(tournaments[t], now)]_vars


\* ------------------------------------------------- the two prize computations
\* C38: for every stored document of the admin create commands and every
\* roster, the handler's prize pool of the document equals the prize pool of
\* the entity built from the document.
C38_PrizePoolComputationsAgree ==
    [][last'.op = "_calculate_prize_pool" => last'.arg[2] = last'.arg[3]]_vars


\* ------------------------------------------------------------ user statistics
\* C39: after any sequence of add_tournament_participation and
\* add_tournament_win on a fresh user, total_tournaments is the number of
\* distinct tournament ids in tournament_history, total_wins is at most
\* total_tournaments, and User.validate has no error about the statistics.
C39_UserStatisticsValid ==
    \A u \in UserIds :
        /\ users[u].total_tournaments =
              Cardinality({users[u].tournament_history[i] :
                              i \in 1..Len(users[u].tournament_history)})
        /\ users[u].total_wins <= users[u].total_tournaments
        /\ UserStatsErrors(users[u]) = <<>>

====
